---------------------------- MODULE Spec2Model ----------------------------
(***************************************************************************)
(* A model of renesugar/chrometabs: the framed command log reader          *)
(* (src/session.py) and the pickle buffer and cursor (src/pickle.py).      *)
(*                                                                         *)
(* Bytes are integers 0..255.  Python sequences are 0-based; the model's   *)
(* sequences are 1-based, so  buf[o : o+n]  is  Slice(buf, o, n).          *)
(* Integers are unpacked in host byte order; the model fixes a             *)
(* little-endian host (byteorder_ = '<').                                  *)
(***************************************************************************)
EXTENDS Integers, Sequences, FiniteSets, TLC

VARIABLES
  \* ---- the environment of one SessionFileReader ----
  frames,            \* ghost: the frame descriptors the file was built from
  keep,              \* ghost: bytes kept of the last frame (0: not cut)
  file,              \* the bytes of the file at path
  file_offset,       \* the read offset of the handle file_
  file_,             \* the handle: "none" (None), "open" or "closed"
  io_error_at,       \* the refill whose readinto reports None (0: none)
  fill_calls,        \* the refills (readinto calls of __FillBuffer) so far
  \* ---- SessionFileReader ----
  buffer_,
  buffer_position_,
  available_count_,
  errored_,
  read_commands,     \* Read's local list of SessionCommands
  success,           \* the flag Read returned
  pc,                \* "open", "streaming", "returned", "raised"
  stop,              \* ghost: what ended Read ("" while it runs)
  \* ---- one Pickle, written and then read through one PickleIterator ----
  scenario,          \* "sequence": any writes; "round_trip": one string;
                     \* "grow": writes larger than the capacity;
                     \* "region": a variable region and its trimming;
                     \* "header": Pickle(h), a header size given;
                     \* "scalar": one scalar written and read back
  pickle_,           \* the Pickle
  written,           \* ghost: the writes so far, [op, value]
  last_write,        \* ghost: [dest, length, ret] of the last write
  iter_,             \* the PickleIterator
  reads,             \* the reads made through iter_
  last_read,         \* what the last read returned, [op, status, ...]
  ppc,               \* "writing", "reading", "raised", "found",
                     \* "trimmed", "command"
  wrapped,           \* ghost: the bytes a Borrowed pickle_ was made over
  found,             \* what the last FindNext, TrimWriteData, Pickle(h)
                     \* or read through a command's Pickle gave,
                     \* [op |-> "none"] before
  \* ---- one navigation command decoded by TabNavigation.ReadFromPickle ----
  nav_fields,        \* ghost: the values encoded in the payload, in order
  nav_damage,        \* ghost: how the last field's length prefix is wrong
  contents_,         \* the contents of the SessionCommand
  nav_iter,          \* the PickleIterator over its PayloadAsPickle()
  navigation,        \* the TabNavigation
  nav_ret,           \* what ReadFromPickle returned
  npc                \* "command", "iterating", "returned", "raised"

rvars == <<frames, keep, file, file_offset, file_, io_error_at, fill_calls,
           buffer_, buffer_position_, available_count_, errored_,
           read_commands, success, pc, stop>>

pvars == <<scenario, pickle_, written, last_write, iter_, reads, last_read,
           ppc>>

wvars == <<wrapped, found>>

nvars == <<nav_fields, nav_damage, contents_, nav_iter, navigation, nav_ret,
           npc>>

vars == <<rvars, pvars, wvars, nvars>>

-----------------------------------------------------------------------------
(* Program constants.                                                      *)

kPayloadUnit == 64
kFileCurrentVersion == 1
kFileSignature == 1397968467       \* 0x53534E53
kFileReadBufferSize == 1024
SizeOf_BOOL == 1
SizeOf_INT == 4
SizeOf_UINT16 == 2
SizeOf_UINT32 == 4
SizeOf_INT64 == 8
SizeOf_UINT64 == 8
SizeOf_HEADER == 4
SizeOf_FILEHEADER == 8
SizeOf_SIZE_TYPE == 2
SizeOf_ID_TYPE == 1

(* Bounds of the model.                                                    *)
MaxFrames == 2       \* frames in a file
MaxKeep == 2         \* leading bytes kept of a cut last frame
MaxIoAt == 2         \* the refill that may report an I/O error
MaxWrites == 2       \* writes to one Pickle
MaxBlob == 2         \* bytes of a blob given to WriteData or WriteBytes
MaxStrLen == 2       \* characters of a round-tripped string
MaxReads == 1        \* reads through one PickleIterator
MaxCommandWrites == 1  \* writes to a Pickle a command is made from

-----------------------------------------------------------------------------
(* Bytes and slices.                                                       *)

Min(a, b) == IF a < b THEN a ELSE b
Max(a, b) == IF a > b THEN a ELSE b

\* buf[o : o+n] of Python (clipped at the end of buf, as a slice is)
Slice(buf, o, n) ==
  LET m == Max(0, Min(n, Len(buf) - o))
  IN  [i \in 1..m |-> buf[o + i]]

Zeros(n) == [i \in 1..n |-> 0]

\* struct.pack / struct.unpack_from of '<I', '<H', '<B'
PackU32(v) ==
  <<v % 256, (v \div 256) % 256, (v \div 65536) % 256, (v \div 16777216) % 256>>
PackU16(v) == <<v % 256, (v \div 256) % 256>>
UnpackU32(buf, o) ==
  buf[o + 1] + 256 * buf[o + 2] + 65536 * buf[o + 3] + 16777216 * buf[o + 4]
UnpackU16(buf, o) == buf[o + 1] + 256 * buf[o + 2]
UnpackU8(buf, o) == buf[o + 1]

AlignInt(i, alignment) == i + ((alignment - (i % alignment)) % alignment)


\* The two 16-bit halves <<low, high>> of the 32-bit word at o: the file
\* header's words are only compared for equality, and a word such as
\* 0xDEADBEEF does not fit the checker's integers.
UnpackU32Halves(buf, o) == <<UnpackU16(buf, o), UnpackU16(buf, o + 2)>>
U32Halves(v) == <<v % 65536, v \div 65536>>

-----------------------------------------------------------------------------
(* Pickle (src/pickle.py).  A Pickle is a record                           *)
(*   header_   the storage (a byte sequence; <<>> when header_ is None)    *)
(*   is_none   header_ is None                                             *)
(*   header_readonly   header_ is a memoryview of an immutable object      *)
(*   header_size_, capacity_, variable_buffer_offset_                      *)

\* sys.maxsize stands for "read-only"; any value no capacity reaches does.
kCapacityReadOnly == 2147483647

\* the header size a wrap would deduce if it did not test the alignment
WrapHeaderSizeUnaligned(a) ==
  LET data_len == Len(a)
      hs1 == IF data_len >= SizeOf_HEADER THEN data_len - UnpackU32(a, 0) ELSE 0
  IN  IF hs1 > data_len THEN 0 ELSE hs1

\* the header size deduced from the data length and the stored payload size
WrapHeaderSize(a) ==
  LET data_len == Len(a)
      hs1 == IF data_len >= SizeOf_HEADER THEN data_len - UnpackU32(a, 0) ELSE 0
      hs2 == IF hs1 > data_len THEN 0 ELSE hs1
  IN  IF hs2 # AlignInt(hs2, SizeOf_UINT32) THEN 0 ELSE hs2

\* Pickle(a) for a bytes-like a: wrap without copying
PickleWrap(a) ==
  LET hs3 == WrapHeaderSize(a)
  IN  [header_ |-> IF hs3 = 0 THEN <<>> ELSE a,
       is_none |-> (hs3 = 0),
       header_readonly |-> FALSE,
       header_size_ |-> hs3,
       capacity_ |-> kCapacityReadOnly,
       variable_buffer_offset_ |-> 0]

\* Pickle(a) for a bytes object a: memoryview(a) is read-only
PickleWrapBytes(a) == [PickleWrap(a) EXCEPT !.header_readonly = TRUE]

PickleSize(p) ==
  IF p.is_none THEN 0 ELSE p.header_size_ + UnpackU32(p.header_, 0)

PickleData(p) == IF p.is_none THEN <<>> ELSE p.header_

PicklePayloadSize(p) == UnpackU32(p.header_, 0)

PicklePayload(p) == p.header_size_

\* buf[lo:hi] = data on a bytearray (0 <= lo): the slice is clipped
\* to buf and replaced, so buf changes length when data is not as long
SliceAssign(buf, lo, hi, data) ==
  LET s0 == Min(lo, Len(buf))
      e0 == Max(s0, Min(hi, Len(buf)))
  IN  SubSeq(buf, 1, s0) \o data \o SubSeq(buf, e0 + 1, Len(buf))

\* struct.pack_into(fmt, buf, o, v) for the packed bytes of v
PackInto(buf, o, bytes) ==
  [i \in 1..Len(buf) |->
     IF i > o /\ i <= o + Len(bytes) THEN bytes[i - o] ELSE buf[i]]

\* Resize of an Owned pickle (a read-only one raises): [p, raised]
Resize(p, new_capacity) ==
  LET nc == AlignInt(new_capacity, kPayloadUnit)
      h == IF nc = 0 THEN Zeros(SizeOf_HEADER)
           ELSE IF nc < p.capacity_
           THEN IF ~p.is_none THEN Slice(p.header_, 0, nc) ELSE Zeros(nc)
           ELSE IF nc = p.capacity_
           THEN IF p.is_none THEN Zeros(nc) ELSE p.header_
           ELSE IF ~p.is_none THEN p.header_ \o Zeros(nc - p.capacity_)
           ELSE Zeros(nc)
      hs == IF nc = 0 \/ (nc > p.capacity_ /\ p.is_none)
            THEN SizeOf_HEADER ELSE p.header_size_
      vbo == IF nc = 0 THEN 0 ELSE p.variable_buffer_offset_
  IN  IF p.capacity_ = kCapacityReadOnly
      THEN [p |-> p, raised |-> TRUE]
      ELSE [p |-> [header_ |-> h, is_none |-> FALSE,
                   header_readonly |-> FALSE, header_size_ |-> hs,
                   capacity_ |-> nc, variable_buffer_offset_ |-> vbo],
            raised |-> FALSE]

\* Pickle(): the default header size
PickleDefault ==
  LET p0 == [header_ |-> Zeros(SizeOf_HEADER), is_none |-> FALSE,
             header_readonly |-> FALSE,
             header_size_ |-> SizeOf_HEADER, capacity_ |-> 0,
             variable_buffer_offset_ |-> 0]
      p1 == Resize(p0, kPayloadUnit).p
  IN  [p1 EXCEPT !.header_ = PackInto(@, 0, PackU32(0))]

\* Pickle(a) for an int a, the header size in bytes: [p, raised]
PickleWithHeader(a) ==
  LET p0 == [header_ |-> <<>>, is_none |-> TRUE, header_readonly |-> FALSE,
             header_size_ |-> AlignInt(a, SizeOf_UINT32), capacity_ |-> 0,
             variable_buffer_offset_ |-> 0]
      p1 == Resize(p0, kPayloadUnit).p
  IN  IF p0.header_size_ < SizeOf_HEADER \/ p0.header_size_ > kPayloadUnit
      THEN [p |-> p0, raised |-> TRUE]
      ELSE [p |-> [p1 EXCEPT !.header_ = PackInto(@, 0, PackU32(0))],
            raised |-> FALSE]

\* the write offset of BeginWrite, from the stored payload size
WriteOffsetUnaligned(payload_size) == payload_size
WriteOffset(payload_size) == AlignInt(payload_size, SizeOf_UINT32)

\* BeginWrite growing to twice the capacity whatever the size needed
BeginWriteDoubling(p, length) ==
  LET offset == WriteOffset(UnpackU32(p.header_, 0))
      new_size == offset + length
      needed_size == p.header_size_ + new_size
      rz == IF needed_size > p.capacity_
            THEN Resize(p, p.capacity_ * 2)
            ELSE [p |-> p, raised |-> FALSE]
  IN  IF p.is_none \/ rz.raised \/ rz.p.header_readonly
      THEN [p |-> p, dest |-> -1, raised |-> TRUE]
      ELSE [p |-> [rz.p EXCEPT !.header_ = PackInto(@, 0, PackU32(new_size))],
            dest |-> PicklePayload(rz.p) + offset,
            raised |-> FALSE]

\* BeginWrite: [p, dest (the offset returned), raised].  unpack_from
\* raises TypeError on a header_ that is None, and pack_into on a
\* read-only memoryview.
BeginWrite(p, length) ==
  LET offset == WriteOffset(UnpackU32(p.header_, 0))
      new_size == offset + length
      needed_size == p.header_size_ + new_size
      rz == IF needed_size > p.capacity_
            THEN Resize(p, Max(p.capacity_ * 2, needed_size))
            ELSE [p |-> p, raised |-> FALSE]
  IN  IF p.is_none
      THEN [p |-> p, dest |-> -1, raised |-> TRUE]
      ELSE IF rz.raised \/ rz.p.header_readonly
      THEN [p |-> p, dest |-> -1, raised |-> TRUE]
      ELSE [p |-> [rz.p EXCEPT !.header_ = PackInto(@, 0, PackU32(new_size))],
            dest |-> PicklePayload(rz.p) + offset,
            raised |-> FALSE]

\* EndWrite: zero-pad up to the next 4-byte boundary
EndWrite(p, dest, length) ==
  LET pad == SizeOf_UINT32 - (length % SizeOf_UINT32)
  IN  IF length % SizeOf_UINT32 # 0
      THEN [p EXCEPT !.header_ =
              SliceAssign(@, dest + length, dest + length + pad, Zeros(pad))]
      ELSE p

\* The result of a writer: [p, ret, raised, dest, length]; dest and length
\* are those of its last BeginWrite (-1 when there was none).
WriteRaised(p) ==
  [p |-> p, ret |-> FALSE, raised |-> TRUE, dest |-> -1, length |-> -1]
WriteRefused(p) ==
  [p |-> p, ret |-> FALSE, raised |-> FALSE, dest |-> -1, length |-> -1]

\* WriteBytes without its test of capacity_
WriteBytesUnguarded(p, data, data_len) ==
  LET bw == BeginWrite(p, data_len)
      copied == [bw.p EXCEPT !.header_ =
                   SliceAssign(@, bw.dest, bw.dest + data_len,
                               Slice(data, 0, data_len))]
  IN  IF bw.raised
      THEN WriteRaised(p)
      ELSE [p |-> EndWrite(copied, bw.dest, data_len), ret |-> TRUE,
            raised |-> FALSE, dest |-> bw.dest, length |-> data_len]

WriteBytes(p, data, data_len) ==
  LET bw == BeginWrite(p, data_len)
      copied == [bw.p EXCEPT !.header_ =
                   SliceAssign(@, bw.dest, bw.dest + data_len,
                               Slice(data, 0, data_len))]
  IN  IF p.capacity_ = kCapacityReadOnly \/ bw.raised
      THEN WriteRaised(p)
      ELSE [p |-> EndWrite(copied, bw.dest, data_len), ret |-> TRUE,
            raised |-> FALSE, dest |-> bw.dest, length |-> data_len]

\* value.to_bytes(n, 'little'): OverflowError unless 0 <= value < 256^n.
\* The model's integers are below 2^31, so they fit when n >= 4.
CanPack(value, n) == value >= 0 /\ (n >= 4 \/ value < 65536)
ToBytes(value, n) ==
  [i \in 1..n |->
     IF i = 1 THEN value % 256
     ELSE IF i = 2 THEN (value \div 256) % 256
     ELSE IF i = 3 THEN (value \div 65536) % 256
     ELSE IF i = 4 THEN (value \div 16777216) % 256
     ELSE 0]

WriteScalar(p, value, n) ==
  IF ~CanPack(value, n) THEN WriteRaised(p)
  ELSE WriteBytes(p, ToBytes(value, n), n)

WriteInt(p, value) == WriteScalar(p, value, SizeOf_INT)
WriteBool(p, value) == WriteInt(p, IF value THEN 1 ELSE 0)
WriteUInt16(p, value) == WriteScalar(p, value, SizeOf_UINT16)
WriteUInt32(p, value) == WriteScalar(p, value, SizeOf_UINT32)
WriteInt64(p, value) == WriteScalar(p, value, SizeOf_INT64)
WriteUInt64(p, value) == WriteScalar(p, value, SizeOf_UINT64)

-----------------------------------------------------------------------------
(* Python's codecs.  A string is a sequence of code points (Unicode        *)
(* scalar values); encoding gives bytes, decoding gives [ok, value],       *)
(* ok = FALSE standing for UnicodeDecodeError.                             *)

IsSurrogate(cp) == cp >= 55296 /\ cp <= 57343

EncodeCodePointUTF8(cp) ==
  IF cp < 128 THEN <<cp>>
  ELSE IF cp < 2048 THEN <<192 + (cp \div 64), 128 + (cp % 64)>>
  ELSE IF cp < 65536
  THEN <<224 + (cp \div 4096), 128 + ((cp \div 64) % 64), 128 + (cp % 64)>>
  ELSE <<240 + (cp \div 262144), 128 + ((cp \div 4096) % 64),
         128 + ((cp \div 64) % 64), 128 + (cp % 64)>>

EncodeCodePointUTF16(cp) ==
  IF cp < 65536 THEN PackU16(cp)
  ELSE PackU16(55296 + ((cp - 65536) \div 1024))
         \o PackU16(56320 + ((cp - 65536) % 1024))

EncodeCodePointUTF32(cp) == PackU32(cp)

RECURSIVE EncodeUTF8(_)
EncodeUTF8(s) ==
  IF s = <<>> THEN <<>> ELSE EncodeCodePointUTF8(Head(s)) \o EncodeUTF8(Tail(s))

RECURSIVE EncodeUTF16(_)
EncodeUTF16(s) ==
  IF s = <<>> THEN <<>>
  ELSE EncodeCodePointUTF16(Head(s)) \o EncodeUTF16(Tail(s))

RECURSIVE EncodeUTF32(_)
EncodeUTF32(s) ==
  IF s = <<>> THEN <<>>
  ELSE EncodeCodePointUTF32(Head(s)) \o EncodeUTF32(Tail(s))

DecodeFailed == [ok |-> FALSE, value |-> <<>>]

IsContinuation(b) == b >= 128 /\ b <= 191

\* the elements of a set of indices in increasing order
InOrder(S) ==
  [k \in 1..Cardinality(S) |->
     CHOOSE i \in S : Cardinality({j \in S : j <= i}) = k]

\* the bytes a UTF-8 character takes, from its first byte (0: no first byte)
WidthUTF8(b1) ==
  IF b1 < 128 THEN 1
  ELSE IF b1 >= 194 /\ b1 <= 223 THEN 2
  ELSE IF b1 >= 224 /\ b1 <= 239 THEN 3
  ELSE IF b1 >= 240 /\ b1 <= 244 THEN 4
  ELSE 0

\* the code point of the n bytes of b from index i on
CodePointUTF8(b, i, n) ==
  IF n = 1 THEN b[i]
  ELSE IF n = 2 THEN (b[i] - 192) * 64 + (b[i + 1] - 128)
  ELSE IF n = 3
  THEN (b[i] - 224) * 4096 + (b[i + 1] - 128) * 64 + (b[i + 2] - 128)
  ELSE (b[i] - 240) * 262144 + (b[i + 1] - 128) * 4096
         + (b[i + 2] - 128) * 64 + (b[i + 3] - 128)

\* bytes.decode('utf-8'): every byte that is not a continuation starts a
\* character of the right width, shortest form, that is no surrogate
DecodeUTF8(b) ==
  LET N == Len(b)
      starts == {i \in 1..N : ~IsContinuation(b[i])}
      GoodAt(i) ==
        LET n == WidthUTF8(b[i])
            cp == CodePointUTF8(b, i, n)
        IN  /\ n # 0
            /\ i + n - 1 <= N
            /\ \A j \in (i + 1)..(i + n - 1) : IsContinuation(b[j])
            /\ i + n <= N => ~IsContinuation(b[i + n])
            /\ ~(n = 3 /\ cp < 2048)
            /\ ~(n = 4 /\ cp < 65536)
            /\ cp <= 1114111
            /\ ~IsSurrogate(cp)
      order == InOrder(starts)
  IN  IF N > 0 /\ IsContinuation(b[1]) THEN DecodeFailed
      ELSE IF \E i \in starts : ~GoodAt(i) THEN DecodeFailed
      ELSE [ok |-> TRUE,
            value |-> [k \in 1..Len(order) |->
                         CodePointUTF8(b, order[k], WidthUTF8(b[order[k]]))]]

IsHighSurrogate(u) == u >= 55296 /\ u <= 56319
IsLowSurrogate(u) == u >= 56320 /\ u <= 57343

\* bytes.decode('utf-16-le'): whole 16-bit units, each high surrogate
\* followed by a low one and each low one preceded by a high one
DecodeUTF16(b) ==
  LET N == Len(b) \div 2
      u == [i \in 1..N |-> UnpackU16(b, 2 * (i - 1))]
      starts == {i \in 1..N : ~IsLowSurrogate(u[i])}
      order == InOrder(starts)
      CodePointAt(i) ==
        IF IsHighSurrogate(u[i])
        THEN 65536 + (u[i] - 55296) * 1024 + (u[i + 1] - 56320)
        ELSE u[i]
  IN  IF Len(b) % 2 # 0 THEN DecodeFailed
      ELSE IF \E i \in 1..N :
                \/ IsHighSurrogate(u[i]) /\ (i = N \/ ~IsLowSurrogate(u[i + 1]))
                \/ IsLowSurrogate(u[i]) /\ (i = 1 \/ ~IsHighSurrogate(u[i - 1]))
      THEN DecodeFailed
      ELSE [ok |-> TRUE,
            value |-> [k \in 1..Len(order) |-> CodePointAt(order[k])]]

\* bytes.decode('utf-32-le'): whole 32-bit units, each a scalar value
DecodeUTF32(b) ==
  LET N == Len(b) \div 4
      CodePointAt(i) ==
        b[4 * i - 3] + 256 * b[4 * i - 2] + 65536 * b[4 * i - 1]
  IN  IF Len(b) % 4 # 0 THEN DecodeFailed
      ELSE IF \E i \in 1..N :
                \/ b[4 * i] # 0
                \/ CodePointAt(i) > 1114111
                \/ IsSurrogate(CodePointAt(i))
      THEN DecodeFailed
      ELSE [ok |-> TRUE, value |-> [i \in 1..N |-> CodePointAt(i)]]

-----------------------------------------------------------------------------
(* The string and blob writers.                                            *)

\* WriteInt(count) then WriteBytes(data, data_len)
WriteCounted(p, count, data, data_len) ==
  LET w1 == WriteInt(p, count)
  IN  IF w1.raised \/ ~w1.ret THEN w1 ELSE WriteBytes(w1.p, data, data_len)

WriteStringCharCount(p, value) ==
  WriteCounted(p, Len(value), EncodeUTF8(value), Len(EncodeUTF8(value)))
WriteString(p, value) ==
  LET data == EncodeUTF8(value)
  IN  WriteCounted(p, Len(data), data, Len(data))

WriteWString(p, value) ==
  LET data == EncodeUTF32(value)
  IN  WriteCounted(p, Len(data), data, Len(data))

WriteString16(p, value) ==
  LET data == EncodeUTF16(value)
  IN  WriteCounted(p, Len(data), data, Len(data))

WriteData(p, data, length) ==
  IF length < 0 THEN WriteRefused(p)
  ELSE WriteCounted(p, length, data, length)

\* BeginWriteData: ret = FALSE stands for the None it returns on failure,
\* dest is the data_ptr it returns otherwise
BeginWriteData(p, length) ==
  LET wi == WriteInt(p, length)
      bw == BeginWrite(wi.p, length)
      marked == [bw.p EXCEPT !.variable_buffer_offset_ = bw.dest - SizeOf_INT]
  IN  IF p.variable_buffer_offset_ # 0 THEN WriteRaised(p)
      ELSE IF length < 0 THEN WriteRefused(p)
      ELSE IF wi.raised THEN WriteRaised(p)
      ELSE IF ~wi.ret THEN WriteRefused(wi.p)
      ELSE IF bw.raised THEN WriteRaised(wi.p)
      ELSE [p |-> EndWrite(marked, bw.dest, length), ret |-> TRUE,
            raised |-> FALSE, dest |-> bw.dest, length |-> length]

\* TrimWriteData: [p, raised].  Both pack_into calls write at offset 0.
TrimWriteData(p, new_length) ==
  LET cur_length == UnpackU32(p.header_, p.variable_buffer_offset_)
      payload_size == UnpackU32(p.header_, 0)
      new_payload_size == payload_size - (cur_length - new_length)
      sized == PackInto(p.header_, 0, PackU32(new_payload_size))
  IN  IF p.variable_buffer_offset_ = 0 THEN [p |-> p, raised |-> FALSE]
      ELSE IF new_length < 0 \/ new_length > cur_length
      THEN [p |-> p, raised |-> TRUE]
      ELSE [p |-> [p EXCEPT !.header_ =
                     PackInto(sized, 0, PackU32(new_length))],
            raised |-> FALSE]

\* FindNext(header_size, start, end) for int offsets start and end:
\* [raised, none, ret].  Past the tests of header_size and of the length
\* of the range, struct.unpack_from is given the int start where it takes
\* a buffer and raises TypeError; the lines after it are never reached.
FindNext(header_size, start, end) ==
  IF header_size # AlignInt(header_size, SizeOf_UINT32)
  THEN [raised |-> TRUE, none |-> FALSE, ret |-> -1]
  ELSE IF header_size > kPayloadUnit
  THEN [raised |-> TRUE, none |-> FALSE, ret |-> -1]
  ELSE IF (end - start) < SizeOf_HEADER
  THEN [raised |-> FALSE, none |-> TRUE, ret |-> -1]
  ELSE [raised |-> TRUE, none |-> FALSE, ret |-> -1]

-----------------------------------------------------------------------------
(* PickleIterator: a record [bytes_, read_ptr_, read_end_ptr_].            *)

\* v[start:] of Python
SliceFrom(buf, start) ==
  LET s0 == IF start < 0 THEN Max(0, Len(buf) + start) ELSE start
  IN  Slice(buf, s0, Len(buf) - s0)

PickleIterator(p) ==
  LET bytes == SliceFrom(PickleData(p), PicklePayload(p))
  IN  [bytes_ |-> bytes, read_ptr_ |-> 0, read_end_ptr_ |-> Len(bytes)]

\* GetReadPointerAndAdvance advancing by the bytes read, not aligned
GetReadPointerAndAdvanceUnaligned(it, num_bytes0, size_element) ==
  LET num_bytes == IF size_element # 0 THEN num_bytes0 * size_element
                   ELSE num_bytes0
  IN  IF num_bytes < 0 \/ (it.read_end_ptr_ - it.read_ptr_) < num_bytes
      THEN [it |-> it, ptr |-> -1]
      ELSE [it |-> [it EXCEPT !.read_ptr_ = @ + num_bytes],
            ptr |-> it.read_ptr_]

\* GetReadPointerAndAdvance advancing before its test of the bytes left
GetReadPointerAndAdvanceFirst(it, num_bytes0, size_element) ==
  LET num_bytes == IF size_element # 0 THEN num_bytes0 * size_element
                   ELSE num_bytes0
      advanced == [it EXCEPT !.read_ptr_ =
                     @ + AlignInt(Max(num_bytes, 0), SizeOf_UINT32)]
  IN  IF num_bytes < 0 \/ (it.read_end_ptr_ - it.read_ptr_) < num_bytes
      THEN [it |-> advanced, ptr |-> -1]
      ELSE [it |-> advanced, ptr |-> it.read_ptr_]

\* [it, ptr]; ptr = -1 stands for None
GetReadPointerAndAdvance(it, num_bytes0, size_element) ==
  LET num_bytes == IF size_element # 0 THEN num_bytes0 * size_element
                   ELSE num_bytes0
  IN  IF num_bytes < 0 \/ (it.read_end_ptr_ - it.read_ptr_) < num_bytes
      THEN [it |-> it, ptr |-> -1]
      ELSE [it |-> [it EXCEPT !.read_ptr_ =
                      @ + AlignInt(num_bytes, SizeOf_UINT32)],
            ptr |-> it.read_ptr_]

\* struct.unpack_from('<i', buf, o)
UnpackI32(buf, o) ==
  LET top == IF buf[o + 4] >= 128 THEN buf[o + 4] - 256 ELSE buf[o + 4]
  IN  buf[o + 1] + 256 * buf[o + 2] + 65536 * buf[o + 3] + 16777216 * top

\* The result of a read: [it, status, value, raised, bare]; bare says that
\* the method returned the single value False instead of a pair.
ReadResult(it, status, value) ==
  [it |-> it, status |-> status, value |-> value, raised |-> FALSE,
   bare |-> FALSE]
ReadBareFalse(it) ==
  [it |-> it, status |-> FALSE, value |-> <<>>, raised |-> FALSE,
   bare |-> TRUE]
ReadRaised(it) ==
  [it |-> it, status |-> FALSE, value |-> <<>>, raised |-> TRUE,
   bare |-> FALSE]

ReadInt(it) ==
  LET g == GetReadPointerAndAdvance(it, SizeOf_INT, 0)
  IN  IF g.ptr = -1 THEN ReadResult(g.it, FALSE, FALSE)
      ELSE ReadResult(g.it, TRUE, UnpackI32(it.bytes_, g.ptr))

\* the decoded text of the length * width bytes at the pointer
ReadDecoded(g, nbytes, decoded) ==
  IF nbytes = 0 THEN ReadResult(g.it, TRUE, <<>>)
  ELSE IF ~decoded.ok THEN ReadRaised(g.it)
  ELSE ReadResult(g.it, TRUE, decoded.value)

ReadString(it) ==
  LET len == ReadInt(it)
      g == GetReadPointerAndAdvance(len.it, len.value, 0)
  IN  IF ~len.status THEN ReadBareFalse(len.it)
      ELSE IF g.ptr = -1 THEN ReadBareFalse(g.it)
      ELSE ReadDecoded(g, len.value,
                       DecodeUTF8(Slice(it.bytes_, g.ptr, len.value)))

ReadWString(it) ==
  LET len == ReadInt(it)
      g == GetReadPointerAndAdvance(len.it, len.value, SizeOf_UINT32)
  IN  IF ~len.status THEN ReadBareFalse(len.it)
      ELSE IF g.ptr = -1 THEN ReadBareFalse(g.it)
      ELSE ReadDecoded(g, len.value,
             DecodeUTF32(Slice(it.bytes_, g.ptr, len.value * SizeOf_UINT32)))

ReadString16(it) ==
  LET len == ReadInt(it)
      g == GetReadPointerAndAdvance(len.it, len.value, SizeOf_UINT16)
  IN  IF ~len.status THEN ReadBareFalse(len.it)
      ELSE IF g.ptr = -1 THEN ReadBareFalse(g.it)
      ELSE ReadDecoded(g, len.value,
             DecodeUTF16(Slice(it.bytes_, g.ptr, len.value * SizeOf_UINT16)))

-----------------------------------------------------------------------------
(* SessionCommand (src/session.py): a record [id_, contents_].             *)

\* SessionCommand(id, pickle): copies the first size() bytes of data()
SessionCommandFromPickle(id, p) ==
  [id_ |-> id, contents_ |-> Slice(PickleData(p), 0, PickleSize(p))]

SessionCommandSize(c) == Len(c.contents_)

PayloadAsPickle(c) == PickleWrap(c.contents_)


-----------------------------------------------------------------------------
(* More reads of the PickleIterator, used by TabNavigation.                *)

ReadBool(it) ==
  LET g == GetReadPointerAndAdvance(it, SizeOf_BOOL, 0)
  IN  IF g.ptr = -1 THEN ReadResult(g.it, FALSE, FALSE)
      ELSE ReadResult(g.it, TRUE, it.bytes_[g.ptr + 1] # 0)

ReadBinaryString(it) ==
  LET len == ReadInt(it)
      g == GetReadPointerAndAdvance(len.it, len.value, 0)
  IN  IF ~len.status THEN ReadBareFalse(len.it)
      ELSE IF g.ptr = -1 THEN ReadBareFalse(g.it)
      ELSE ReadResult(g.it, TRUE, Slice(it.bytes_, g.ptr, len.value))

\* SizeOf.LONG is 4 and the standard size of 'l' is 4
SizeOf_LONG == 4

\* struct.unpack_from('<h', buf, o)
UnpackI16(buf, o) ==
  LET top == IF buf[o + 2] >= 128 THEN buf[o + 2] - 256 ELSE buf[o + 2]
  IN  buf[o + 1] + 256 * top

\* a 64-bit value as its two 32-bit words <<low, high>>: the low word
\* unsigned, the high word signed ('q') or unsigned ('Q')
UnpackI64(buf, o) == <<UnpackU32(buf, o), UnpackI32(buf, o + 4)>>
UnpackU64(buf, o) == <<UnpackU32(buf, o), UnpackU32(buf, o + 4)>>

SkipBytes(it, num_bytes) ==
  LET g == GetReadPointerAndAdvance(it, num_bytes, 0)
  IN  ReadResult(g.it, g.ptr # -1, g.ptr # -1)

ReadLong(it) ==
  LET g == GetReadPointerAndAdvance(it, SizeOf_LONG, 0)
  IN  IF g.ptr = -1 THEN ReadResult(g.it, FALSE, FALSE)
      ELSE ReadResult(g.it, TRUE, UnpackI32(it.bytes_, g.ptr))

\* the format is 'h': the two bytes are taken as a signed value
ReadUInt16(it) ==
  LET g == GetReadPointerAndAdvance(it, SizeOf_UINT16, 0)
  IN  IF g.ptr = -1 THEN ReadResult(g.it, FALSE, FALSE)
      ELSE ReadResult(g.it, TRUE, UnpackI16(it.bytes_, g.ptr))

ReadUInt32(it) ==
  LET g == GetReadPointerAndAdvance(it, SizeOf_UINT32, 0)
  IN  IF g.ptr = -1 THEN ReadResult(g.it, FALSE, FALSE)
      ELSE ReadResult(g.it, TRUE, UnpackU32(it.bytes_, g.ptr))

ReadInt64(it) ==
  LET g == GetReadPointerAndAdvance(it, SizeOf_INT64, 0)
  IN  IF g.ptr = -1 THEN ReadResult(g.it, FALSE, FALSE)
      ELSE ReadResult(g.it, TRUE, UnpackI64(it.bytes_, g.ptr))

ReadUInt64(it) ==
  LET g == GetReadPointerAndAdvance(it, SizeOf_UINT64, 0)
  IN  IF g.ptr = -1 THEN ReadResult(g.it, FALSE, FALSE)
      ELSE ReadResult(g.it, TRUE, UnpackU64(it.bytes_, g.ptr))

\* ReadBytes(length): ValueError for a negative length
ReadBytes(it, length) ==
  LET g == GetReadPointerAndAdvance(it, length, 0)
  IN  IF length < 0 THEN ReadRaised(it)
      ELSE IF length = 0 THEN ReadResult(it, TRUE, <<>>)
      ELSE IF g.ptr = -1 THEN ReadResult(g.it, FALSE, FALSE)
      ELSE ReadResult(g.it, TRUE, Slice(it.bytes_, g.ptr, length))

\* ReadLength: ReadInt, reported as failed when the value is negative
ReadLength(it) ==
  LET len == ReadInt(it)
  IN  ReadResult(len.it, len.status /\ len.value >= 0, len.value)

\* ReadData: ReadLength, then ReadBytes of that many bytes
ReadData(it) ==
  LET len == ReadLength(it)
  IN  IF ~len.status THEN ReadResult(len.it, FALSE, <<>>)
      ELSE ReadBytes(len.it, len.value)

-----------------------------------------------------------------------------
(* TabNavigation (src/tabnavigation.py): a record of its fields.  Python's *)
(* bool is an int: False and True are kept as 0 and 1.                     *)

HAS_POST_DATA == 1
WebReferrerPolicyDefault == 1

\* None where a Referrer is expected
None == [none |-> TRUE]
\* None where a str or bytes is expected: no sequence of code points or bytes
NoneStr == <<-1>>

Referrer(url, policy) == [url_ |-> url, policy_ |-> policy]

\* TabNavigation()
TabNavigationNew ==
  [index_ |-> -1, unique_id_ |-> 0, referrer_ |-> None,
   virtual_url_ |-> NoneStr, title_ |-> NoneStr, content_state_ |-> NoneStr,
   transition_type_ |-> 0, has_post_data_ |-> 0, post_id_ |-> -1,
   original_request_url_ |-> NoneStr, is_overriding_user_agent_ |-> 0]

\* the second member of the pair a scalar read returns; on failure it is
\* False, the int 0
IntOf(r) == IF r.status THEN r.value ELSE 0
BoolInt(b) == IF b THEN 1 ELSE 0

\* "status, x = iterator.Read...()": unpacking the bare False that a string
\* read returns on failure raises TypeError; a decoding error also leaves
\* by an exception
UnpackRaises(r) == r.raised \/ r.bare

\* how ReadFromPickle ends: [nav, it, ret, raised]
NavReturned(nav, it, ret) ==
  [nav |-> nav, it |-> it, ret |-> ret, raised |-> FALSE]
NavRaised(nav, it) ==
  [nav |-> nav, it |-> it, ret |-> FALSE, raised |-> TRUE]

\* "if has_type_mask == True"
TypeMaskPresentAlways(m) == TRUE
TypeMaskPresent(m) == m.status = TRUE

\* "status, policy = iterator.ReadInt()" and the fall back that follows
PolicyRead(pol) == IF pol.status = TRUE THEN pol.value
                   ELSE WebReferrerPolicyDefault

\* the one element of a singleton set; "x = e" followed by statements that
\* use x is written Only({ ... x ... : x \in {e} }), so e is computed once
Only(S) == CHOOSE x \in S : TRUE

\* "status, self.is_overriding_user_agent_ = iterator.ReadBool()" to the end;
\* o is what ReadString returned for original_request_url
OriginalRequestUrlRead(nav, o) ==
  IF UnpackRaises(o) THEN NavRaised(nav, o.it)
  ELSE Only({ NavReturned([nav EXCEPT
                             !.original_request_url_ =
                                IF o.status THEN o.value ELSE <<>>,
                             !.is_overriding_user_agent_ =
                                IF b.status THEN BoolInt(b.value) ELSE 0],
                          b.it, TRUE) : b \in {ReadBool(o.it)} })

\* "self.referrer_ = Referrer(referrer_spec, policy)" and the read of
\* original_request_url; u and pol are what the reads of the referrer url
\* and policy returned
ReferrerPolicyRead(nav, u, pol) ==
  Only({ OriginalRequestUrlRead(
           [nav EXCEPT !.referrer_ =
              Referrer(IF u.status THEN u.value ELSE <<>>, PolicyRead(pol))],
           o) : o \in {ReadString(pol.it)} })

\* "status, referrer_spec = iterator.ReadString()" unpacked, then the read
\* of the policy
ReferrerUrlRead(nav, u) ==
  IF UnpackRaises(u) THEN NavRaised(nav, u.it)
  ELSE Only({ ReferrerPolicyRead(nav, u, pol) : pol \in {ReadInt(u.it)} })

\* "if has_type_mask == True": has_post_data_ is type_mask &
\* TypeMask.HAS_POST_DATA, the lowest bit; then the read of the referrer url
TypeMaskRead(nav, m) ==
  IF ~TypeMaskPresent(m) THEN NavReturned(nav, m.it, TRUE)
  ELSE Only({ ReferrerUrlRead(
                [nav EXCEPT !.has_post_data_ = IntOf(m) % (2 * HAS_POST_DATA)],
                u) : u \in {ReadString(m.it)} })

\* ReadFromPickle from the read of type_mask on
ReadAddedLater(nav, it) ==
  Only({ TypeMaskRead(nav, m) : m \in {ReadInt(it)} })

\* "status, self.transition_type_ = iterator.ReadInt()" and its test
TransitionTypeRead(nav, r) ==
  IF ~r.status THEN NavReturned([nav EXCEPT !.transition_type_ = IntOf(r)],
                                r.it, FALSE)
  ELSE ReadAddedLater([nav EXCEPT !.transition_type_ = IntOf(r)], r.it)

\* "status, self.content_state_ = iterator.ReadBinaryString()" and its test
ContentStateRead(nav, r) ==
  IF UnpackRaises(r) THEN NavRaised(nav, r.it)
  ELSE IF ~r.status
  THEN NavReturned([nav EXCEPT !.content_state_ = r.value], r.it, FALSE)
  ELSE Only({ TransitionTypeRead([nav EXCEPT !.content_state_ = r.value], x)
              : x \in {ReadInt(r.it)} })

\* "status, self.title_ = iterator.ReadString16()" and its test
TitleRead(nav, r) ==
  IF UnpackRaises(r) THEN NavRaised(nav, r.it)
  ELSE IF ~r.status
  THEN NavReturned([nav EXCEPT !.title_ = r.value], r.it, FALSE)
  ELSE Only({ ContentStateRead([nav EXCEPT !.title_ = r.value], x)
              : x \in {ReadBinaryString(r.it)} })

\* "status, self.virtual_url_ = iterator.ReadString()" and its test
VirtualUrlRead(nav, r) ==
  IF UnpackRaises(r) THEN NavRaised(nav, r.it)
  ELSE IF ~r.status
  THEN NavReturned([nav EXCEPT !.virtual_url_ = r.value], r.it, FALSE)
  ELSE Only({ TitleRead([nav EXCEPT !.virtual_url_ = r.value], x)
              : x \in {ReadString16(r.it)} })

\* "status, self.index_ = iterator.ReadInt()" and its test
IndexRead(nav, r) ==
  IF ~r.status THEN NavReturned([nav EXCEPT !.index_ = IntOf(r)], r.it, FALSE)
  ELSE Only({ VirtualUrlRead([nav EXCEPT !.index_ = IntOf(r)], x)
              : x \in {ReadString(r.it)} })

ReadFromPickle(nav, it) ==
  Only({ IndexRead(nav, r) : r \in {ReadInt(it)} })

-----------------------------------------------------------------------------
(* The files the reader is run on.  A frame descriptor is                  *)
(*   [size, id, ps]: the 2-byte size prefix, the id byte, and the value    *)
(*   of the first four content bytes (the nested pickle's payload_size     *)
(*   field); the remaining content bytes follow a pattern of the id.       *)
(* size = 0 is a zero size prefix: two bytes and nothing else.             *)

FrameKinds ==
  { [size |-> 0,    id |-> 0, ps |-> 0],     \* a zero size prefix
    [size |-> 1,    id |-> 7, ps |-> 0],     \* an id and no contents
    [size |-> 2,    id |-> 3, ps |-> 0],     \* one content byte
    [size |-> 13,   id |-> 6, ps |-> 4],     \* header 8, payload 4
    [size |-> 9,    id |-> 2, ps |-> 3],     \* 8 bytes declaring payload 3
    [size |-> 1017, id |-> 9, ps |-> 1012],  \* ends 5 bytes before the window
    [size |-> 1021, id |-> 4, ps |-> 1016],  \* ends 1 byte before the window
    [size |-> 1029, id |-> 5, ps |-> 1024] } \* larger than the window

PatternByte(id, j) == (id * 37 + j * 11 + 1) % 256

\* the size - 1 content bytes of a frame
FrameContents(f) ==
  LET n == f.size - SizeOf_ID_TYPE
      word == PackU32(f.ps)
  IN  [j \in 1..n |-> IF j <= 4 /\ n >= 4 THEN word[j] ELSE PatternByte(f.id, j)]

FrameBytes(f) ==
  IF f.size = 0 THEN PackU16(0)
  ELSE PackU16(f.size) \o <<f.id>> \o FrameContents(f)

RECURSIVE ConcatFrames(_)
ConcatFrames(fs) ==
  IF fs = <<>> THEN <<>> ELSE FrameBytes(Head(fs)) \o ConcatFrames(Tail(fs))

FrameSeqs == UNION { [1..n -> FrameKinds] : n \in 0..MaxFrames }

GoodHeader == PackU32(kFileSignature) \o PackU32(kFileCurrentVersion)
Headers ==
  { GoodHeader,
    <<239, 190, 173, 222>> \o PackU32(kFileCurrentVersion),  \* 0xDEADBEEF
    PackU32(kFileSignature) \o PackU32(kFileCurrentVersion + 1) }

\* header, then the frames, the last one cut to its first k bytes (k > 0)
FileOf(header, fs, k) ==
  IF k = 0 THEN header \o ConcatFrames(fs)
  ELSE header \o ConcatFrames(SubSeq(fs, 1, Len(fs) - 1))
              \o SubSeq(FrameBytes(fs[Len(fs)]), 1, k)

\* the numbers of leading bytes a cut may keep of frame f
Keeps(f) ==
  { k \in (1..MaxKeep) \cup {Len(FrameBytes(f)) - 1} :
      k >= 1 /\ k < Len(FrameBytes(f)) }

-----------------------------------------------------------------------------
(* SessionFileReader (src/session.py).                                     *)
(* __FillBuffer and __ReadCommand work on the reader's fields, gathered    *)
(* in a record r; the actions below store the record back.                 *)

ReaderFields ==
  [buffer_ |-> buffer_, buffer_position_ |-> buffer_position_,
   available_count_ |-> available_count_, errored_ |-> errored_,
   file_offset |-> file_offset, fill_calls |-> fill_calls]

ShiftedBufferNoShift(r) == r.buffer_
\* buffer_[0:available_count_] = buffer_[position : position + available]
ShiftedBuffer(r) ==
  IF r.available_count_ > 0 /\ r.buffer_position_ > 0
  THEN [i \in 1..Len(r.buffer_) |->
          IF i <= r.available_count_ THEN r.buffer_[r.buffer_position_ + i]
          ELSE r.buffer_[i]]
  ELSE r.buffer_

RewoundBufferKeepPosition(r) == [r EXCEPT !.buffer_ = ShiftedBuffer(r)]
\* the shift and "self.buffer_position_ = 0"
RewoundBuffer(r) ==
  [r EXCEPT !.buffer_ = ShiftedBuffer(r), !.buffer_position_ = 0]

\* __FillBuffer: [rd: the fields after the call, ret: the value returned,
\* raised: it raised 'out of space'].  file_.readinto on a regular file
\* fills the slice unless the file ends first; it reports None at the
\* refill io_error_at.
FillBuffer(r) ==
  LET avail == r.available_count_
      r1 == RewoundBuffer(r)
      shifted == r1.buffer_
      to_read == Len(shifted) - avail
      read_count == Min(to_read, Len(file) - r.file_offset)
      filled ==
        [i \in 1..Len(shifted) |->
           IF i > avail /\ i <= avail + read_count
           THEN file[r.file_offset + (i - avail)]
           ELSE shifted[i]]
      r2 == [r1 EXCEPT !.fill_calls = @ + 1]
  IN  IF avail >= Len(shifted)
      THEN [rd |-> r1, ret |-> FALSE, raised |-> TRUE]
      ELSE IF r2.fill_calls = io_error_at
      THEN [rd |-> [r2 EXCEPT !.errored_ = TRUE], ret |-> FALSE, raised |-> FALSE]
      ELSE IF read_count = 0
      THEN [rd |-> r2, ret |-> FALSE, raised |-> FALSE]
      ELSE [rd |-> [r2 EXCEPT !.buffer_ = filled,
                              !.available_count_ = avail + read_count,
                              !.file_offset = @ + read_count],
            ret |-> TRUE, raised |-> FALSE]

NoCommand == [id_ |-> -1, contents_ |-> <<>>]

\* a call of __ReadCommand that returns None or raises; why is a ghost
Stopped(r, outcome, why) ==
  [rd |-> r, outcome |-> outcome, why |-> why, command |-> NoCommand]

\* The window grown for a frame of command_size bytes.  The source divides
\* with '/', Python's true division, so new_capacity is the float
\* (command_size / 1024 + 1) * 1024 = command_size + 1024 exactly.
GrownBuffer(buf, command_size) ==
  LET capacity == Len(buf)
      new_capacity == command_size + kFileReadBufferSize
      extend_length == new_capacity - capacity
  IN  buf \o Zeros(extend_length)

\* the tail of __ReadCommand, from the unpacking of the id
DecodeCommand(r, command_size) ==
  LET command_id == UnpackU8(r.buffer_, r.buffer_position_)
      offset == r.buffer_position_ + SizeOf_ID_TYPE
      payload_size == command_size - SizeOf_ID_TYPE
  IN  IF command_size > SizeOf_ID_TYPE
      THEN [rd |-> [r EXCEPT !.buffer_position_ = @ + command_size,
                             !.available_count_ = @ - command_size],
            outcome |-> "command", why |-> "",
            command |-> SessionCommandFromPickle(command_id,
                          PickleWrap(Slice(r.buffer_, offset, payload_size)))]
      \* SessionCommand(int, bytearray) matches no constructor: ValueError
      ELSE Stopped(r, "raise", "size_one")

\* "Empty command. Shouldn't happen if write was successful, fail."
IsEmptyCommandNever(command_size) == FALSE
IsEmptyCommand(command_size) == command_size = 0

\* __ReadCommand from the size prefix on
ReadCommandBody(r) ==
  LET command_size == UnpackU16(r.buffer_, r.buffer_position_)
      r1 == [r EXCEPT !.buffer_position_ = @ + SizeOf_UINT16,
                      !.available_count_ = @ - SizeOf_UINT16]
      r2 == IF command_size > Len(r1.buffer_)
            THEN [r1 EXCEPT !.buffer_ = GrownBuffer(@, command_size)]
            ELSE r1
      fill == FillBuffer(r2)
  IN  IF IsEmptyCommand(command_size)
      THEN Stopped(r1, "none", "zero_size")
      ELSE IF command_size > r1.available_count_
      THEN IF fill.raised
           THEN Stopped(fill.rd, "raise", "out_of_space")
           ELSE IF ~fill.ret
           THEN Stopped(fill.rd, "none",
                        IF fill.rd.errored_ THEN "io_error" ELSE "end_of_file")
           ELSE IF command_size > fill.rd.available_count_
           THEN Stopped(fill.rd, "none", "short_frame")
           ELSE DecodeCommand(fill.rd, command_size)
      ELSE DecodeCommand(r1, command_size)

\* __ReadCommand: [rd, outcome: "command" | "none" | "raise", why, command]
ReadCommand(r) ==
  LET fill == FillBuffer(r)
  IN  IF r.available_count_ < SizeOf_SIZE_TYPE
      THEN IF fill.raised
           THEN Stopped(fill.rd, "raise", "out_of_space")
           ELSE IF ~fill.ret
           THEN Stopped(fill.rd, "none",
                        IF fill.rd.errored_ THEN "io_error" ELSE "end_of_file")
           ELSE IF fill.rd.available_count_ < SizeOf_SIZE_TYPE
           THEN Stopped(fill.rd, "none", "short_size")
           ELSE ReadCommandBody(fill.rd)
      ELSE ReadCommandBody(r)

StoreReader(r) ==
  /\ buffer_' = r.buffer_
  /\ buffer_position_' = r.buffer_position_
  /\ available_count_' = r.available_count_
  /\ errored_' = r.errored_
  /\ file_offset' = r.file_offset
  /\ fill_calls' = r.fill_calls

\* the Pickle side while a file is read, and the reader while a Pickle is
\* written and read: not in use
PickleIdle ==
  /\ scenario = "none"
  /\ pickle_ = PickleDefault
  /\ written = <<>>
  /\ last_write = [dest |-> -1, length |-> -1, ret |-> FALSE]
  /\ iter_ = PickleIterator(PickleDefault)
  /\ reads = 0
  /\ last_read = [op |-> "none"]
  /\ ppc = "idle"
  /\ wrapped = <<>>
  /\ found = [op |-> "none"]

ReaderIdle ==
  /\ frames = <<>>
  /\ keep = 0
  /\ file = <<>>
  /\ file_offset = 0
  /\ io_error_at = 0
  /\ fill_calls = 0
  /\ buffer_ = <<>>
  /\ buffer_position_ = 0
  /\ available_count_ = 0
  /\ errored_ = FALSE
  /\ read_commands = <<>>
  /\ success = FALSE
  /\ pc = "idle"
  /\ stop = ""
  /\ file_ = "none"

\* no navigation command is decoded
NavIdle ==
  /\ nav_fields = <<>>
  /\ nav_damage = "none"
  /\ contents_ = <<>>
  /\ nav_iter = PickleIterator(PickleWrap(<<>>))
  /\ navigation = TabNavigationNew
  /\ nav_ret = FALSE
  /\ npc = "idle"

\* SessionFileReader(path) on an existing file
Opened ==
  /\ frames \in FrameSeqs
  /\ \/ /\ keep = 0
        /\ io_error_at \in 0..MaxIoAt
        /\ \E h \in Headers :
             /\ h # GoodHeader => (io_error_at = 0 /\ Len(frames) <= 1)
             /\ file = FileOf(h, frames, 0)
     \/ /\ frames # <<>>
        /\ keep \in Keeps(frames[Len(frames)])
        /\ io_error_at = 0
        /\ file = FileOf(GoodHeader, frames, keep)
     \* a file that ends inside the header, the empty file among them
     \/ /\ frames = <<>>
        /\ keep = 0
        /\ io_error_at = 0
        /\ \E h \in Headers, n \in 0..(SizeOf_FILEHEADER - 1) :
             file = SubSeq(h, 1, n)
  /\ file_ = "open"
  /\ pc = "open"

\* SessionFileReader(path) where path is not a file: __init__ raises
\* ValueError before it opens anything
NotFound ==
  /\ frames = <<>>
  /\ keep = 0
  /\ io_error_at = 0
  /\ file = <<>>
  /\ file_ = "none"
  /\ pc = "failed"

Init ==
  /\ PickleIdle
  /\ NavIdle
  /\ Opened \/ NotFound
  /\ file_offset = 0
  /\ fill_calls = 0
  /\ buffer_ = Zeros(kFileReadBufferSize)
  /\ buffer_position_ = 0
  /\ available_count_ = 0
  /\ errored_ = FALSE
  /\ read_commands = <<>>
  /\ success = FALSE
  /\ stop = ""

HeaderValidSignatureOnly(header) ==
  UnpackU32Halves(header, 0) = U32Halves(kFileSignature)
\* the header check of Read
HeaderValid(header) ==
  ~ \/ UnpackU32Halves(header, 0) # U32Halves(kFileSignature)
    \/ UnpackU32Halves(header, SizeOf_UINT32) # U32Halves(kFileCurrentVersion)

HeaderCompleteAlways(read_count) == TRUE
\* "read_count != SizeOf.FILEHEADER" of Read, negated
HeaderComplete(read_count) == read_count = SizeOf_FILEHEADER

\* Read, up to the header check; header is a bytearray of 8 zero bytes
\* that readinto fills from the file
ReadHeader ==
  /\ pc = "open"
  /\ LET read_count == Min(SizeOf_FILEHEADER, Len(file))
         header == Slice(file, 0, SizeOf_FILEHEADER)
                     \o Zeros(SizeOf_FILEHEADER - read_count)
     IN  /\ file_offset' = read_count
         /\ IF ~HeaderComplete(read_count)
            THEN pc' = "returned" /\ stop' = "short_header"
            ELSE IF ~HeaderValid(header)
            THEN pc' = "returned" /\ stop' = "bad_header"
            ELSE pc' = "streaming" /\ stop' = ""
  /\ success' = FALSE
  /\ UNCHANGED <<frames, keep, file, file_, io_error_at, fill_calls,
                 buffer_, buffer_position_, available_count_, errored_,
                 read_commands>>
  /\ UNCHANGED <<pvars, wvars, nvars>>

\* Read: one call of __ReadCommand and the loop test that follows it
ReadLoop ==
  /\ pc = "streaming"
  /\ LET res == ReadCommand(ReaderFields)
     IN  /\ StoreReader(res.rd)
         /\ IF res.outcome = "raise"
            THEN /\ pc' = "raised"
                 /\ stop' = res.why
                 /\ UNCHANGED <<read_commands, success>>
            ELSE IF res.outcome = "command" /\ ~res.rd.errored_
            THEN /\ read_commands' = Append(read_commands, res.command)
                 /\ pc' = "streaming"
                 /\ UNCHANGED <<success, stop>>
            ELSE /\ pc' = "returned"
                 /\ stop' = res.why
                 /\ success' = ~res.rd.errored_
                 /\ UNCHANGED read_commands
  /\ UNCHANGED <<frames, keep, file, file_, io_error_at>>
  /\ UNCHANGED <<pvars, wvars, nvars>>

\* __del__, when the caller has dropped the reader after Read: closes the
\* handle if there is one and it is open
Del ==
  /\ pc \in {"returned", "raised"}
  /\ file_ = "open"
  /\ file_' = "closed"
  /\ UNCHANGED <<frames, keep, file, file_offset, io_error_at, fill_calls,
                 buffer_, buffer_position_, available_count_, errored_,
                 read_commands, success, pc, stop>>
  /\ UNCHANGED <<pvars, wvars, nvars>>

Next == ReadHeader \/ ReadLoop \/ Del

Spec == Init /\ [][Next]_vars

-----------------------------------------------------------------------------
(* A Pickle written by typed writers, then read through one cursor.        *)

Chars == {65, 233, 8364, 128512}      \* 1, 2, 3 and 4 bytes in UTF-8

StringsUpTo(n) == UNION { [1..k -> Chars] : k \in 0..n }

\* the strings written: any up to MaxStrLen in a round trip; in a sequence
\* of writes, one of each encoded length modulo 4
Strings ==
  IF scenario = "round_trip" THEN StringsUpTo(MaxStrLen)
  ELSE {<<>>, <<65>>, <<8364>>}

Blobs == { [j \in 1..n |-> PatternByte(n, j)] : n \in 0..MaxBlob }

WritesAllowed ==
  IF scenario \in {"round_trip", "scalar"} THEN 1 ELSE MaxWrites

PickleInit ==
  /\ ReaderIdle
  /\ NavIdle
  /\ scenario \in {"sequence", "round_trip", "grow", "region", "header",
                   "scalar", "typed"}
  /\ pickle_ = PickleDefault
  /\ written = <<>>
  /\ last_write = [dest |-> -1, length |-> -1, ret |-> FALSE]
  /\ iter_ = PickleIterator(PickleDefault)
  /\ reads = 0
  /\ last_read = [op |-> "none"]
  /\ ppc = "writing"
  /\ wrapped = <<>>
  /\ found = [op |-> "none"]

CanWrite == ppc = "writing" /\ Len(written) < WritesAllowed

\* the state after a writer returned res
Wrote(op, value, res) ==
  /\ pickle_' = res.p
  /\ written' = Append(written, [op |-> op, value |-> value])
  /\ last_write' = [dest |-> res.dest, length |-> res.length, ret |-> res.ret]
  /\ ppc' = IF res.raised THEN "raised" ELSE "writing"
  /\ UNCHANGED <<scenario, iter_, reads, last_read, wvars>>
  /\ UNCHANGED <<rvars, nvars>>

DoWriteBool ==
  /\ CanWrite /\ scenario = "sequence"
  /\ \E v \in BOOLEAN : Wrote("WriteBool", v, WriteBool(pickle_, v))

DoWriteInt ==
  /\ CanWrite /\ scenario = "sequence"
  /\ \E v \in {305419896} : Wrote("WriteInt", v, WriteInt(pickle_, v))

DoWriteUInt16 ==
  /\ CanWrite /\ scenario = "sequence"
  /\ \E v \in {65535} : Wrote("WriteUInt16", v, WriteUInt16(pickle_, v))

DoWriteUInt32 ==
  /\ CanWrite /\ scenario = "sequence"
  /\ \E v \in {287454020} : Wrote("WriteUInt32", v, WriteUInt32(pickle_, v))

DoWriteInt64 ==
  /\ CanWrite /\ scenario = "sequence"
  /\ \E v \in {16909060} : Wrote("WriteInt64", v, WriteInt64(pickle_, v))

DoWriteUInt64 ==
  /\ CanWrite /\ scenario = "sequence"
  /\ \E v \in {84281096} : Wrote("WriteUInt64", v, WriteUInt64(pickle_, v))

DoWriteString ==
  /\ CanWrite
  /\ \E v \in Strings : Wrote("WriteString", v, WriteString(pickle_, v))

DoWriteString16 ==
  /\ CanWrite
  /\ \E v \in Strings : Wrote("WriteString16", v, WriteString16(pickle_, v))

DoWriteWString ==
  /\ CanWrite
  /\ \E v \in Strings : Wrote("WriteWString", v, WriteWString(pickle_, v))

DoWriteData ==
  /\ CanWrite /\ scenario = "sequence"
  /\ \E v \in Blobs : Wrote("WriteData", v, WriteData(pickle_, v, Len(v)))

DoWriteBytes ==
  /\ CanWrite /\ scenario = "sequence"
  /\ \E v \in Blobs : Wrote("WriteBytes", v, WriteBytes(pickle_, v, Len(v)))

\* WriteBytes of a block of LargeLengths bytes: up to the capacity of 64,
\* one byte more, and more than twice the capacity
LargeLengths == {57, 60, 61, 130}

LargeBlob(n) == [j \in 1..n |-> ((n + j) % 5) + 1]

DoWriteLargeBytes ==
  /\ CanWrite /\ scenario = "grow"
  /\ \E n \in LargeLengths :
       Wrote("WriteBytes", LargeBlob(n), WriteBytes(pickle_, LargeBlob(n), n))

\* pickle_ = Pickle(h): when the constructor raises, pickle_ is still the
\* Pickle() it was
HeaderSizes == {-1, 0, 1, 4, 5, 8, 12, 64, 65}

DoPickleWithHeader ==
  /\ scenario = "header" /\ ppc = "writing" /\ found.op = "none"
  /\ written = <<>>
  /\ \E h \in HeaderSizes :
       LET res == PickleWithHeader(h)
       IN  /\ pickle_' = IF res.raised THEN pickle_ ELSE res.p
           /\ found' = [op |-> "Pickle", header_size |-> h,
                        raised |-> res.raised]
           /\ ppc' = IF res.raised THEN "raised" ELSE "writing"
  /\ UNCHANGED <<scenario, written, last_write, iter_, reads, last_read,
                 wrapped>>
  /\ UNCHANGED <<rvars, nvars>>

\* BeginWriteData(length): the variable region
RegionLengths == {0, 2, 6}

DoBeginWriteData ==
  /\ CanWrite /\ scenario = "region"
  /\ \E length \in RegionLengths :
       Wrote("BeginWriteData", length, BeginWriteData(pickle_, length))

\* TrimWriteData(n), the last call of a run
DoTrimWriteData ==
  /\ scenario = "region" /\ ppc = "writing" /\ found.op = "none"
  /\ \E n \in {-1, 0, 2, 6, 7} :
       LET res == TrimWriteData(pickle_, n)
       IN  /\ pickle_' = res.p
           /\ found' = [op |-> "TrimWriteData", n |-> n,
                        raised |-> res.raised,
                        header_ |-> pickle_.header_]
           /\ ppc' = IF res.raised THEN "raised" ELSE "trimmed"
  /\ UNCHANGED <<scenario, written, last_write, iter_, reads, last_read,
                 wrapped>>
  /\ UNCHANGED <<rvars, nvars>>

\* one scalar written by its typed writer: values at the ends and inside
\* the range of each type, as far as the numbers of the model go
\* (below 2^31), and the first values outside the range
ScalarValues(op) ==
  IF op = "WriteInt" THEN {-2147483647, -1, 0, 5, 2147483647}
  ELSE IF op = "WriteUInt16" THEN {-1, 0, 7, 32767, 32768, 65535, 65536}
  ELSE IF op = "WriteUInt32" THEN {-1, 0, 9, 2147483647}
  ELSE IF op = "WriteInt64" THEN {-2147483647, -1, 0, 11, 2147483647}
  ELSE {-1, 0, 13, 2147483647}

ScalarWriters == {"WriteInt", "WriteUInt16", "WriteUInt32", "WriteInt64",
                  "WriteUInt64"}

ScalarWrite(p, op, v) ==
  IF op = "WriteInt" THEN WriteInt(p, v)
  ELSE IF op = "WriteUInt16" THEN WriteUInt16(p, v)
  ELSE IF op = "WriteUInt32" THEN WriteUInt32(p, v)
  ELSE IF op = "WriteInt64" THEN WriteInt64(p, v)
  ELSE WriteUInt64(p, v)

\* the read that matches a typed writer
MatchingRead(it, op) ==
  IF op = "WriteBool" THEN ReadBool(it)
  ELSE IF op = "WriteInt" THEN ReadInt(it)
  ELSE IF op = "WriteUInt16" THEN ReadUInt16(it)
  ELSE IF op = "WriteUInt32" THEN ReadUInt32(it)
  ELSE IF op = "WriteInt64" THEN ReadInt64(it)
  ELSE ReadUInt64(it)

MatchingReadName(op) ==
  IF op = "WriteBool" THEN "ReadBool"
  ELSE IF op = "WriteInt" THEN "ReadInt"
  ELSE IF op = "WriteUInt16" THEN "ReadUInt16"
  ELSE IF op = "WriteUInt32" THEN "ReadUInt32"
  ELSE IF op = "WriteInt64" THEN "ReadInt64"
  ELSE "ReadUInt64"

DoWriteScalar ==
  /\ CanWrite /\ scenario = "scalar"
  /\ \/ \E v \in BOOLEAN : Wrote("WriteBool", v, WriteBool(pickle_, v))
     \/ \E op \in ScalarWriters : \E v \in ScalarValues(op) :
          Wrote(op, v, ScalarWrite(pickle_, op, v))

\* SessionCommand(id, pickle_), its PayloadAsPickle(), and a cursor over
\* each of the two Pickles
CommandIds == {1, 6}

MakeCommand ==
  /\ scenario = "sequence" /\ ppc = "writing"
  /\ Len(written) <= MaxCommandWrites
  /\ \E id \in CommandIds :
       LET c == SessionCommandFromPickle(id, pickle_)
       IN  /\ contents_' = c.contents_
           /\ nav_iter' = PickleIterator(PayloadAsPickle(c))
           /\ found' = [op |-> "SessionCommand", id |-> id]
  /\ iter_' = PickleIterator(pickle_)
  /\ ppc' = "command"
  /\ UNCHANGED <<scenario, pickle_, written, last_write, reads, last_read,
                 wrapped>>
  /\ UNCHANGED <<rvars, nav_fields, nav_damage, navigation, nav_ret, npc>>

\* the same read through both cursors: last_read is what the cursor over
\* pickle_ gave, found what the cursor over the command's Pickle gave
CommandReads == {"ReadInt", "ReadUInt16", "ReadString"}

CommandReadCall(it, op) ==
  IF op = "ReadInt" THEN ReadInt(it)
  ELSE IF op = "ReadUInt16" THEN ReadUInt16(it)
  ELSE ReadString(it)

CommandRead ==
  /\ ppc = "command" /\ reads < MaxReads
  /\ \E op \in CommandReads :
       LET own == CommandReadCall(iter_, op)
           cmd == CommandReadCall(nav_iter, op)
       IN  /\ iter_' = own.it
           /\ nav_iter' = cmd.it
           /\ last_read' = [op |-> op, status |-> own.status,
                            value |-> own.value, raised |-> own.raised,
                            bare |-> own.bare, before |-> iter_.read_ptr_]
           /\ found' = [op |-> "CommandRead", id |-> found.id,
                        status |-> cmd.status, value |-> cmd.value,
                        raised |-> cmd.raised, bare |-> cmd.bare]
  /\ reads' = reads + 1
  /\ UNCHANGED <<scenario, pickle_, written, last_write, ppc, wrapped>>
  /\ UNCHANGED <<rvars, nav_fields, nav_damage, contents_, navigation,
                 nav_ret, npc>>

\* Writes of a bool, a uint32 and a length-prefixed blob, aligned or not
\* (the strings are written by DoWriteString), then the reads of the same
\* types in the same order through a cursor over pickle_ and through a
\* cursor over a Pickle that wraps the first size() bytes of its data()
OrderedWriters == {"WriteBool", "WriteUInt32", "WriteString", "WriteData"}

OrderedBlobs ==
  { [j \in 1..n |-> PatternByte(n, j)] : n \in {0, 3, 4, 5} }

DoWriteOrdered ==
  /\ CanWrite /\ scenario = "typed"
  /\ \/ \E v \in BOOLEAN : Wrote("WriteBool", v, WriteBool(pickle_, v))
     \/ \E v \in {0, 287454020} :
          Wrote("WriteUInt32", v, WriteUInt32(pickle_, v))
     \/ \E v \in OrderedBlobs :
          Wrote("WriteData", v, WriteData(pickle_, v, Len(v)))

OrderedCursors ==
  /\ scenario = "typed" /\ ppc = "writing"
  /\ \A i \in 1..Len(written) : written[i].op \in OrderedWriters
  /\ LET encoded == Slice(PickleData(pickle_), 0, PickleSize(pickle_))
     IN  /\ contents_' = encoded
         /\ nav_iter' = PickleIterator(PickleWrap(encoded))
  /\ iter_' = PickleIterator(pickle_)
  /\ ppc' = "ordered"
  /\ UNCHANGED <<scenario, pickle_, written, last_write, reads, last_read,
                 wvars>>
  /\ UNCHANGED <<rvars, nav_fields, nav_damage, navigation, nav_ret, npc>>

OrderedReadCall(it, op) ==
  IF op = "WriteBool" THEN ReadBool(it)
  ELSE IF op = "WriteUInt32" THEN ReadUInt32(it)
  ELSE IF op = "WriteString" THEN ReadString(it)
  ELSE ReadData(it)

\* the next read in the order of the writes, through both cursors:
\* last_read is what the cursor over pickle_ gave, found what the cursor
\* over the wrapping Pickle gave
OrderedRead ==
  /\ ppc = "ordered" /\ reads < Len(written)
  /\ LET op == written[reads + 1].op
         own == OrderedReadCall(iter_, op)
         brw == OrderedReadCall(nav_iter, op)
     IN  /\ iter_' = own.it
         /\ nav_iter' = brw.it
         /\ last_read' = [op |-> op, status |-> own.status,
                          value |-> own.value, raised |-> own.raised,
                          bare |-> own.bare, before |-> iter_.read_ptr_]
         /\ found' = [op |-> "OrderedRead", status |-> brw.status,
                      value |-> brw.value, raised |-> brw.raised,
                      bare |-> brw.bare]
  /\ reads' = reads + 1
  /\ UNCHANGED <<scenario, pickle_, written, last_write, ppc, wrapped>>
  /\ UNCHANGED <<rvars, nav_fields, nav_damage, contents_, navigation,
                 nav_ret, npc>>

\* PickleIterator(pickle_)
NewIterator ==
  /\ ppc = "writing"
  /\ iter_' = PickleIterator(pickle_)
  /\ ppc' = "reading"
  /\ UNCHANGED <<scenario, pickle_, written, last_write, reads, last_read,
                 wvars>>
  /\ UNCHANGED <<rvars, nvars>>

CanRead == ppc = "reading" /\ reads < MaxReads

\* the state after a read returned res
DidRead(op, res) ==
  /\ iter_' = res.it
  /\ reads' = reads + 1
  /\ last_read' = [op |-> op, status |-> res.status, value |-> res.value,
                   raised |-> res.raised, bare |-> res.bare,
                   before |-> iter_.read_ptr_]
  /\ ppc' = IF res.raised THEN "raised" ELSE "reading"
  /\ UNCHANGED <<scenario, pickle_, written, last_write, wvars>>
  /\ UNCHANGED <<rvars, nvars>>

\* the "scalar" and "typed" scenarios read with the matching readers only
CanReadString == CanRead /\ scenario \notin {"scalar", "typed"}

DoReadString == CanReadString /\ DidRead("ReadString", ReadString(iter_))
DoReadString16 ==
  CanReadString /\ DidRead("ReadString16", ReadString16(iter_))
DoReadWString == CanReadString /\ DidRead("ReadWString", ReadWString(iter_))

\* the read that matches the scalar written
DoReadScalar ==
  /\ CanRead /\ scenario = "scalar"
  /\ written # <<>>
  /\ written[1].op \in ScalarWriters \cup {"WriteBool"}
  /\ DidRead(MatchingReadName(written[1].op),
             MatchingRead(iter_, written[1].op))

PickleNext ==
  \/ DoWriteBool \/ DoWriteInt \/ DoWriteUInt16 \/ DoWriteUInt32
  \/ DoWriteInt64 \/ DoWriteUInt64
  \/ DoWriteString \/ DoWriteString16 \/ DoWriteWString
  \/ DoWriteData \/ DoWriteBytes
  \/ DoWriteLargeBytes
  \/ DoBeginWriteData \/ DoTrimWriteData
  \/ DoPickleWithHeader
  \/ MakeCommand \/ CommandRead
  \/ DoWriteScalar \/ DoReadScalar
  \/ DoWriteOrdered \/ OrderedCursors \/ OrderedRead
  \/ NewIterator
  \/ DoReadString \/ DoReadString16 \/ DoReadWString

PickleSpec == PickleInit /\ [][PickleNext]_vars


-----------------------------------------------------------------------------
(* What the file holds, told from the ghosts.                              *)

Terminated == pc \in {"returned", "raised"}

FileHeader == Slice(file, 0, SizeOf_FILEHEADER)

\* the frames wholly in the file
CompleteFrames ==
  IF keep = 0 THEN frames ELSE SubSeq(frames, 1, Len(frames) - 1)

\* the content is a nested pickle: a header of a positive multiple of 4
\* bytes that starts with payload_size, then payload_size bytes
ConsistentPickle(f) ==
  LET n == f.size - SizeOf_ID_TYPE
  IN  /\ n >= SizeOf_HEADER
      /\ n - f.ps >= SizeOf_HEADER
      /\ (n - f.ps) % 4 = 0

WellFormedFrame(f) == f.size >= 2 /\ ConsistentPickle(f)

ExpectedCommand(f) == [id_ |-> f.id, contents_ |-> FrameContents(f)]

ExpectedCommands(fs) == [i \in 1..Len(fs) |-> ExpectedCommand(fs[i])]

\* the ids of the commands read so far are those of the first frames
IdsInFileOrder ==
  /\ Len(read_commands) <= Len(frames)
  /\ \A i \in 1..Len(read_commands) : read_commands[i].id_ = frames[i].id

-----------------------------------------------------------------------------
(* Claims about the reader.                                                *)

C1_WellFormedFile ==
  /\ FileHeader = GoodHeader
  /\ keep = 0
  /\ io_error_at = 0
  /\ \A i \in 1..Len(frames) : WellFormedFrame(frames[i])

\* C1: for a valid header followed by complete well-formed frames, Read
\* returns (True, commands) with one command per frame, in file order, each
\* with the frame's id and contents byte-equal to the frame's content bytes,
\* wherever the frames fall relative to the window; until it returns, the
\* commands read are a prefix of them.
C1_FramesInFileOrder ==
  C1_WellFormedFile =>
    /\ pc # "raised"
    /\ read_commands =
         SubSeq(ExpectedCommands(frames), 1, Len(read_commands))
    /\ pc = "returned" =>
         success /\ read_commands = ExpectedCommands(frames)

\* a frame's size prefix was split by the end of the window, and a later
\* frame was larger than the window
C1_Witness ==
  /\ C1_WellFormedFile
  /\ pc = "returned"
  /\ Len(frames) = 2
  /\ frames[1].size = 1021
  /\ frames[2].size = 1029
  /\ Len(read_commands) = 2
  /\ fill_calls >= 3

C2_CutFile ==
  /\ FileHeader = GoodHeader
  /\ keep > 0
  /\ \A i \in 1..Len(frames) : frames[i].size >= 1

\* C2: for a valid header, k complete frames and a final frame cut short
\* at any point, Read returns success = True and exactly the k complete
\* frames.
C2_CutFrameOmitted ==
  (C2_CutFile /\ Terminated) =>
    /\ pc = "returned"
    /\ success
    /\ read_commands = ExpectedCommands(CompleteFrames)

\* the same for complete frames that are well formed: this part holds
C2_CutFrameOmittedWellFormed ==
  (/\ C2_CutFile
   /\ \A i \in 1..Len(CompleteFrames) : WellFormedFrame(frames[i])) =>
    /\ pc # "raised"
    /\ pc = "returned" =>
         success /\ read_commands = ExpectedCommands(CompleteFrames)

\* C3: when the header's signature or version is wrong, Read returns
\* (False, []) and decodes no frame, whatever follows the header.
C3_BadHeaderFails ==
  (Len(file) >= SizeOf_FILEHEADER /\ FileHeader # GoodHeader) =>
    /\ pc \in {"open", "returned"}
    /\ read_commands = <<>>
    /\ fill_calls = 0
    /\ available_count_ = 0
    /\ pc = "returned" => ~success

\* a file with a wrong version and a frame after the header
C3_Witness ==
  /\ pc = "returned"
  /\ Slice(file, 0, 4) = PackU32(kFileSignature)
  /\ FileHeader # GoodHeader
  /\ Len(frames) = 1
  /\ frames[1].size = 13

\* C4: an I/O error at a refill after k frames stops the loop at once and
\* Read returns False with exactly those k frames; in every other case
\* that got past header validation Read returns True.
C4_IoErrorOnly ==
  (FileHeader = GoodHeader /\ Terminated) =>
    /\ pc = "returned"
    /\ IdsInFileOrder
    /\ success = ~(io_error_at # 0 /\ fill_calls >= io_error_at)

\* the part of C4 about the error itself: this part holds
C4_IoErrorStops ==
  /\ errored_ <=> (io_error_at # 0 /\ fill_calls >= io_error_at)
  /\ errored_ => (pc = "returned" /\ ~success /\ stop = "io_error"
                    /\ fill_calls = io_error_at /\ IdsInFileOrder)
  /\ (pc = "returned" /\ FileHeader = GoodHeader /\ ~errored_) => success

\* the index of the first zero size prefix among the frames (0: none)
FirstZero ==
  IF \E i \in 1..Len(frames) : frames[i].size = 0
  THEN CHOOSE i \in 1..Len(frames) :
         /\ frames[i].size = 0
         /\ \A j \in 1..(i - 1) : frames[j].size # 0
  ELSE 0

\* the reader gets to the first zero size prefix: it is wholly in the
\* file, nothing before it raises and no refill fails
C5_ReachesZero ==
  /\ FileHeader = GoodHeader
  /\ io_error_at = 0
  /\ FirstZero # 0
  /\ keep = 0 \/ FirstZero < Len(frames)
  /\ \A j \in 1..(FirstZero - 1) : frames[j].size >= 2

C6_ContentsByteEqual ==
  FileHeader = GoodHeader =>
    \A i \in 1..Len(read_commands) :
      frames[i].size >= 2 =>
        /\ SessionCommandSize(read_commands[i]) = frames[i].size - 1
        /\ read_commands[i].contents_ = FrameContents(frames[i])

\* C7: a complete frame of declared size 1 is decoded without error into
\* a command with its id and empty contents, and reading continues.
C7_SizeOneDecoded ==
  (FileHeader = GoodHeader /\ io_error_at = 0 /\ Terminated) =>
    \A i \in 1..Len(CompleteFrames) :
      (frames[i].size = 1 /\ \A j \in 1..(i - 1) : frames[j].size >= 2) =>
        /\ pc = "returned"
        /\ Len(read_commands) >= i
        /\ read_commands[i] = [id_ |-> frames[i].id, contents_ |-> <<>>]


-----------------------------------------------------------------------------
(* Claims about the Pickle and its cursor.                                 *)

\* C8: after any sequence of typed writes on an Owned buffer,
\* payload_size() is a multiple of 4.
C8_PayloadMultipleOf4 == PicklePayloadSize(pickle_) % 4 = 0

\* C8, amended: every write starts at a payload offset that is a multiple
\* of 4, payload_size() is that offset plus the byte length of the last
\* write, and zero bytes follow up to the next multiple of 4; payload_size()
\* is a multiple of 4 when the last write's byte length is.  (A state
\* reached by TrimWriteData is not the state after a write.)
C8_WritesStartAligned ==
  (written # <<>> /\ last_write.ret /\ ppc # "trimmed") =>
    LET start == last_write.dest - PicklePayload(pickle_)
        size == PicklePayloadSize(pickle_)
    IN  /\ start >= 0
        /\ start % 4 = 0
        /\ size = start + last_write.length
        /\ \A j \in (size + 1)..AlignInt(size, 4) :
             pickle_.header_[PicklePayload(pickle_) + j] = 0
        /\ last_write.length % 4 = 0 => size % 4 = 0

\* a 2-byte write, then a string of one byte: payload_size() is 9
C8_Witness ==
  /\ Len(written) = 2
  /\ written[1].op = "WriteUInt16"
  /\ written[2].op = "WriteString"
  /\ last_write.ret
  /\ PicklePayloadSize(pickle_) = 9

\* one write by op to the empty buffer, then one read by rd on a cursor
WroteThenRead(op, rd) ==
  /\ Len(written) = 1
  /\ written[1].op = op
  /\ reads = 1
  /\ last_read.op = rd

ReadBack ==
  /\ last_write.ret
  /\ ~last_read.raised
  /\ ~last_read.bare
  /\ last_read.status = TRUE
  /\ last_read.value = written[1].value

\* C9: WriteString(s) to an empty Owned buffer, then ReadString on a
\* cursor over it, succeeds and returns exactly s, for every string s.
C9_StringRoundTrip == WroteThenRead("WriteString", "ReadString") => ReadBack

\* a string of a 4-byte and a 3-byte character read back
C9_Witness ==
  /\ WroteThenRead("WriteString", "ReadString")
  /\ written[1].value = <<128512, 8364>>
  /\ last_read.status = TRUE
  /\ last_read.value = <<128512, 8364>>

\* C10: WriteString16(s) then ReadString16, and WriteWString(s) then
\* ReadWString, succeed and return exactly s: the count the writer stores
\* is in the unit the reader takes it in.
C10_WideStringRoundTrip ==
  (\/ WroteThenRead("WriteString16", "ReadString16")
   \/ WroteThenRead("WriteWString", "ReadWString")) => ReadBack

\* what the code does instead, for the strings whose doubled (quadrupled)
\* byte count still fits the buffer: the string comes back followed by
\* as many NUL characters as make up the count
C10_ReadsPastTheString ==
  /\ WroteThenRead("WriteString16", "ReadString16") =>
       /\ last_read.status = TRUE
       /\ SubSeq(last_read.value, 1, Len(written[1].value)) = written[1].value
       /\ Len(EncodeUTF16(last_read.value))
            = 2 * Len(EncodeUTF16(written[1].value))
  /\ WroteThenRead("WriteWString", "ReadWString") =>
       /\ last_read.status = TRUE
       /\ Len(last_read.value) = 4 * Len(written[1].value)


-----------------------------------------------------------------------------
(* A navigation command decoded as main() of src/chrometabs.py does it:    *)
(* PayloadAsPickle, a PickleIterator, the tab id, then ReadFromPickle.     *)
(* The payload holds the first n of the ten values of the "pickle order",  *)
(* laid out as the reads take them: an int32 is 4 bytes; a string is an    *)
(* int32 count, then the encoded text padded with zero bytes to a          *)
(* multiple of 4, the count being in bytes for UTF-8 and for the blob and  *)
(* in 16-bit units for UTF-16.                                             *)

\* an int32, little-endian
EncInt(v) == IF v < 0 THEN <<255, 255, 255, 255>> ELSE ToBytes(v, SizeOf_INT)

Padded(b) == b \o Zeros(AlignInt(Len(b), SizeOf_UINT32) - Len(b))

NavKinds ==
  <<"int", "str", "str16", "blob", "int", "int", "str", "int", "str", "bool">>

\* the values a payload may hold at place i of the pickle order
NavValues(i) ==
  CASE i = 1 -> {3}                          \* index_
    [] i = 2 -> {<<>>, <<104, 233>>}         \* virtual_url_
    [] i = 3 -> {<<>>, <<84, 128512>>}       \* title_
    [] i = 4 -> {<<>>, <<1, 2, 3>>}          \* content_state_
    [] i = 5 -> {1}                          \* transition_type_
    [] i = 6 -> {0, 1}                       \* type_mask
    [] i = 7 -> {<<>>, <<114>>}              \* referrer url
    [] i = 8 -> {0, 2}                       \* referrer policy
    [] i = 9 -> {<<>>, <<111, 8364>>}        \* original_request_url_
    [] OTHER -> {0, 1}                       \* is_overriding_user_agent_

\* the payloads: the first n values of a full pickle order
NavPayloads ==
  { SubSeq(f, 1, n) :
      f \in NavValues(1) \X NavValues(2) \X NavValues(3) \X NavValues(4)
             \X NavValues(5) \X NavValues(6) \X NavValues(7) \X NavValues(8)
             \X NavValues(9) \X NavValues(10),
      n \in 0..Len(NavKinds) }

\* the text of a value that has a count, and the count that goes with it
FieldText(kind, v) ==
  CASE kind = "str" -> EncodeUTF8(v)
    [] kind = "str16" -> EncodeUTF16(v)
    [] OTHER -> v
FieldCount(kind, v) ==
  IF kind = "str16" THEN Len(EncodeUTF16(v)) \div SizeOf_UINT16
  ELSE Len(FieldText(kind, v))

\* the bytes of one value; damage is "none", or for a counted value
\* "negative" (the count is -1) or "long" (the count is 8 too large)
EncField(kind, v, damage) ==
  IF kind \in {"int", "bool"} THEN EncInt(v)
  ELSE EncInt(CASE damage = "negative" -> -1
                [] damage = "long" -> FieldCount(kind, v) + 8
                [] OTHER -> FieldCount(kind, v))
       \o Padded(FieldText(kind, v))

RECURSIVE EncFields(_, _, _)
EncFields(fs, i, damage) ==
  IF i > Len(fs) THEN <<>>
  ELSE EncField(NavKinds[i], fs[i], IF i = Len(fs) THEN damage ELSE "none")
       \o EncFields(fs, i + 1, damage)

TabId == 7

\* the contents of the command: the payload size, the tab id, the values
NavContents(fs, damage) ==
  LET payload == EncInt(TabId) \o EncFields(fs, 1, damage)
  IN  EncInt(Len(payload)) \o payload

Damages(fs) ==
  IF fs # <<>> /\ NavKinds[Len(fs)] \in {"str", "str16", "blob"}
  THEN {"none", "negative", "long"}
  ELSE {"none"}

NavInit ==
  /\ ReaderIdle
  /\ PickleIdle
  /\ nav_fields \in NavPayloads
  /\ nav_damage \in Damages(nav_fields)
  /\ contents_ = NavContents(nav_fields, nav_damage)
  /\ nav_iter = PickleIterator(PickleWrap(<<>>))
  /\ navigation = TabNavigationNew
  /\ nav_ret = FALSE
  /\ npc = "command"

\* pickle = command.PayloadAsPickle(); iterator = PickleIterator(pickle);
\* status, tab_id = iterator.ReadInt()
NavIterate ==
  /\ npc = "command"
  /\ LET it == PickleIterator(PayloadAsPickle([id_ |-> 1,
                                               contents_ |-> contents_]))
         tab == ReadInt(it)
     IN  /\ nav_iter' = tab.it
         /\ npc' = IF tab.status THEN "iterating" ELSE "exited"
  /\ UNCHANGED <<nav_fields, nav_damage, contents_, navigation, nav_ret>>
  /\ UNCHANGED <<rvars, pvars, wvars>>

\* navigation = TabNavigation(); navigation.ReadFromPickle(iterator)
NavRead ==
  /\ npc = "iterating"
  /\ LET res == ReadFromPickle(TabNavigationNew, nav_iter)
     IN  /\ nav_iter' = res.it
         /\ navigation' = res.nav
         /\ nav_ret' = res.ret
         /\ npc' = IF res.raised THEN "raised" ELSE "returned"
  /\ UNCHANGED <<nav_fields, nav_damage, contents_>>
  /\ UNCHANGED <<rvars, pvars, wvars>>

NavNext == NavIterate \/ NavRead

NavSpec == NavInit /\ [][NavNext]_vars


-----------------------------------------------------------------------------
\* Claims about TabNavigation.ReadFromPickle (NavSpec).

\* main has finished with the command: ReadFromPickle returned or raised.
NavDone == npc \in {"returned", "raised"}

\* The encoded value of field i of the payload, once ReadFromPickle returned.
NavField(i) == nav_fields[i]

\* The five mandatory fields of the navigation equal the encoded values.
FiveFieldsSet ==
  /\ navigation.index_ = NavField(1)
  /\ navigation.virtual_url_ = NavField(2)
  /\ navigation.title_ = NavField(3)
  /\ navigation.content_state_ = NavField(4)
  /\ navigation.transition_type_ = NavField(5)

\* C11: for a payload holding exactly the five mandatory fields and then
\* ending, ReadFromPickle returns True, the five fields have the encoded
\* values, has_post_data is false, referrer is None and
\* is_overriding_user_agent is false.
C11_FiveFieldsDefaults ==
  (Len(nav_fields) = 5 /\ NavDone)
    => /\ npc = "returned"
       /\ nav_ret = TRUE
       /\ FiveFieldsSet
       /\ navigation.has_post_data_ = 0
       /\ navigation.referrer_ = None
       /\ navigation.is_overriding_user_agent_ = 0

\* A five-field payload with non-empty url, title and content state decoded.
C11_Witness ==
  /\ Len(nav_fields) = 5
  /\ nav_fields[2] = <<104, 233>>
  /\ nav_fields[3] = <<84, 128512>>
  /\ nav_fields[4] = <<1, 2, 3>>
  /\ npc = "returned"
  /\ nav_ret = TRUE
  /\ navigation.title_ = <<84, 128512>>

\* C12: for every payload with the five mandatory fields, type_mask = 1, a
\* referrer url and a referrer policy, ReadFromPickle returns True with
\* has_post_data true and the referrer's url and policy equal to the encoded
\* values.
C12_ReferrerDecoded ==
  (Len(nav_fields) >= 8 /\ nav_fields[6] = 1 /\ nav_damage = "none" /\ NavDone)
    => /\ npc = "returned"
       /\ nav_ret = TRUE
       /\ navigation.has_post_data_ = 1
       /\ navigation.referrer_ = Referrer(NavField(7), NavField(8))

\* The part of C12 the code keeps: when the payload goes on with an
\* original_request_url after the referrer policy, the referrer is decoded.
C12_ReferrerDecodedWithOriginalUrl ==
  (Len(nav_fields) >= 9 /\ nav_fields[6] = 1 /\ nav_damage = "none" /\ NavDone)
    => /\ npc = "returned"
       /\ nav_ret = TRUE
       /\ navigation.has_post_data_ = 1
       /\ navigation.referrer_ = Referrer(NavField(7), NavField(8))

\* C13: when type_mask is present and the stream ends at any later field
\* boundary, ReadFromPickle returns True without raising and every missing
\* field has its default: referrer url "", referrer policy the default
\* policy, original_request_url "", is_overriding_user_agent false.
C13_TruncationDefaults ==
  (Len(nav_fields) >= 6 /\ nav_damage = "none" /\ NavDone)
    => /\ npc = "returned"
       /\ nav_ret = TRUE
       /\ navigation.referrer_ =
            Referrer(IF Len(nav_fields) >= 7 THEN NavField(7) ELSE <<>>,
                     IF Len(nav_fields) >= 8 THEN NavField(8)
                     ELSE WebReferrerPolicyDefault)
       /\ navigation.original_request_url_ =
            (IF Len(nav_fields) >= 9 THEN NavField(9) ELSE <<>>)
       /\ navigation.is_overriding_user_agent_ =
            (IF Len(nav_fields) >= 10 THEN NavField(10) ELSE 0)

\* The part of C13 the code keeps: a stream ending right after
\* original_request_url returns True with is_overriding_user_agent false.
C13_EndsAfterOriginalUrl ==
  (Len(nav_fields) = 9 /\ nav_damage = "none" /\ NavDone)
    => /\ npc = "returned"
       /\ nav_ret = TRUE
       /\ navigation.original_request_url_ = NavField(9)
       /\ navigation.is_overriding_user_agent_ = 0

\* C14: when reading one of the five mandatory fields fails (the stream ends
\* before it, or its declared length is negative or exceeds the remaining
\* bytes), ReadFromPickle returns False; it neither raises nor returns True.
C14_MandatoryFailureReturnsFalse ==
  ((Len(nav_fields) < 5 \/ (Len(nav_fields) = 5 /\ nav_damage # "none"))
    /\ NavDone)
    => /\ npc = "returned"
       /\ nav_ret = FALSE

\* The part of C14 the code keeps: a failing index or transition_type read
\* makes ReadFromPickle return False.
C14_IntFailureReturnsFalse ==
  (Len(nav_fields) \in {0, 4} /\ nav_damage = "none" /\ NavDone)
    => /\ npc = "returned"
       /\ nav_ret = FALSE


\* the optional fields present in the stream hold the values encoded
OptionalFieldsHeld ==
  /\ navigation.has_post_data_ = NavField(6) % 2
  /\ Len(nav_fields) >= 7 => navigation.referrer_.url_ = NavField(7)
  /\ Len(nav_fields) >= 8 => navigation.referrer_.policy_ = NavField(8)
  /\ Len(nav_fields) >= 9 => navigation.original_request_url_ = NavField(9)

\* C29: after ReadFromPickle on a stream holding type_mask and any prefix
\* of the later optional fields, the record is returned and every field
\* that was present holds the value read: has_post_data is bit 0 of
\* type_mask, and a referrer url, referrer policy or original_request_url
\* read before the stream ended is kept.
C29_PresentFieldsKept ==
  (Len(nav_fields) >= 6 /\ nav_damage = "none" /\ NavDone)
    => /\ npc = "returned"
       /\ nav_ret = TRUE
       /\ OptionalFieldsHeld

\* The part of C29 the code keeps: whenever ReadFromPickle returns, the
\* optional fields that were present hold the values read.
C29_PresentFieldsKeptOnReturn ==
  (Len(nav_fields) >= 6 /\ nav_damage = "none" /\ npc = "returned")
    => nav_ret = TRUE /\ OptionalFieldsHeld

\* C30: when the stream ends right after transition_type, the record
\* returned by ReadFromPickle has original_request_url equal to "".
C30_OriginalUrlEmpty ==
  (Len(nav_fields) = 5 /\ NavDone)
    => /\ npc = "returned"
       /\ nav_ret = TRUE
       /\ navigation.original_request_url_ = <<>>

\* The part of C30 the code keeps: the record is returned, with
\* original_request_url as the constructor left it.
C30_OriginalUrlAsConstructed ==
  (Len(nav_fields) = 5 /\ NavDone)
    => /\ npc = "returned"
       /\ nav_ret = TRUE
       /\ navigation.original_request_url_ = NoneStr

-----------------------------------------------------------------------------
(* A Pickle made over bytes it does not own (Borrowed), as                 *)
(* SessionCommand.PayloadAsPickle makes one over a command's contents:     *)
(* the writers and BeginWrite called on it, FindNext, and the reads of a   *)
(* PickleIterator over it.                                                  *)

MaxWrapWrites == 1     \* writer calls on one wrapped Pickle
MaxScalarReads == 2    \* reads through the iterator over a wrapped Pickle

Payload4 == <<97, 98, 99, 100>>
Payload8 == <<1, 0, 0, 0, 255, 255, 2, 0>>

\* the byte sequences wrapped: <<4 bytes of payload size>> \o the rest
WrapImages ==
  { <<>>, <<1>>, <<4, 0, 0>>,                \* shorter than a header
    PackU32(0),                              \* header 4, empty payload
    PackU32(4),                              \* deduced header size 0
    PackU32(4) \o Payload4,                  \* header 4, payload 4
    PackU32(2) \o <<255, 127>>,              \* header 4, payload 2
    PackU32(5) \o Payload4 \o <<7>>,         \* header 4, payload 5
    PackU32(8) \o Payload8,                  \* header 4, payload 8
    PackU32(4) \o PackU32(0) \o Payload4,    \* header 8, payload 4
    PackU32(3) \o Payload4,                  \* deduced header size 5
    PackU32(8) \o Payload4,                  \* deduced header size 0
    PackU32(10) \o Payload4,                 \* deduced header size -2
    PackU32(12) \o Payload4,                 \* deduced header size -4
    PackU32(16) \o Payload4,                 \* deduced header size -8
    PackU32(8) \o PackU32(2) \o <<97, 98, 0, 0>>,  \* length 2, "ab"
    PackU32(4) \o PackU32(9) }               \* length 9, no bytes

\* a payload that is a negative length: read as a length only, its value
\* as an unsigned number is above the numbers of the model
NegativeLength == PackU32(4) \o <<255, 255, 255, 255>>

\* the images the length-prefixed reads are made over: no length, a length
\* with its bytes, lengths with too few bytes, a negative length
LengthImages ==
  { PackU32(0),
    PackU32(8) \o PackU32(2) \o <<97, 98, 0, 0>>,
    PackU32(8) \o Payload8,
    PackU32(4) \o PackU32(9),
    NegativeLength }

WrapInit ==
  /\ ReaderIdle
  /\ NavIdle
  /\ scenario = "wrapped"
  /\ wrapped \in WrapImages \cup {NegativeLength}
  /\ pickle_ \in {PickleWrap(wrapped), PickleWrapBytes(wrapped)}
  /\ written = <<>>
  /\ last_write = [dest |-> -1, length |-> -1, ret |-> FALSE]
  /\ iter_ = PickleIterator(PickleWrap(<<>>))
  /\ reads = 0
  /\ last_read = [op |-> "none"]
  /\ ppc = "writing"
  /\ found = [op |-> "none"]

\* the calls of the typed writers, [op, value, data, length]: value is the
\* number written (1 for True), data the str or bytes, length the length
\* given to WriteData, WriteBytes and BeginWriteData
WriterCalls ==
  {[op |-> "WriteBool", value |-> 1, data |-> <<>>, length |-> 0],
   [op |-> "WriteInt", value |-> 5, data |-> <<>>, length |-> 0],
   [op |-> "WriteUInt16", value |-> 7, data |-> <<>>, length |-> 0],
   [op |-> "WriteUInt32", value |-> 9, data |-> <<>>, length |-> 0],
   [op |-> "WriteInt64", value |-> 11, data |-> <<>>, length |-> 0],
   [op |-> "WriteUInt64", value |-> 13, data |-> <<>>, length |-> 0],
   [op |-> "WriteString", value |-> 0, data |-> <<65>>, length |-> 0],
   [op |-> "WriteString16", value |-> 0, data |-> <<65>>, length |-> 0],
   [op |-> "WriteWString", value |-> 0, data |-> <<65>>, length |-> 0],
   [op |-> "WriteData", value |-> 0, data |-> <<1, 2>>, length |-> 2],
   [op |-> "WriteData", value |-> 0, data |-> <<1, 2>>, length |-> -1],
   [op |-> "WriteBytes", value |-> 0, data |-> <<1, 2>>, length |-> 2],
   [op |-> "WriteBytes", value |-> 0, data |-> <<>>, length |-> 0],
   [op |-> "BeginWriteData", value |-> 0, data |-> <<>>, length |-> 2],
   [op |-> "BeginWriteData", value |-> 0, data |-> <<>>, length |-> -1]}

TypedWriters == { c.op : c \in WriterCalls }

\* what the call c of a typed writer on p gives
WriterCall(p, c) ==
  IF c.op = "WriteBool" THEN WriteBool(p, c.value = 1)
  ELSE IF c.op = "WriteInt" THEN WriteInt(p, c.value)
  ELSE IF c.op = "WriteUInt16" THEN WriteUInt16(p, c.value)
  ELSE IF c.op = "WriteUInt32" THEN WriteUInt32(p, c.value)
  ELSE IF c.op = "WriteInt64" THEN WriteInt64(p, c.value)
  ELSE IF c.op = "WriteUInt64" THEN WriteUInt64(p, c.value)
  ELSE IF c.op = "WriteString" THEN WriteString(p, c.data)
  ELSE IF c.op = "WriteString16" THEN WriteString16(p, c.data)
  ELSE IF c.op = "WriteWString" THEN WriteWString(p, c.data)
  ELSE IF c.op = "WriteData" THEN WriteData(p, c.data, c.length)
  ELSE IF c.op = "WriteBytes" THEN WriteBytes(p, c.data, c.length)
  ELSE BeginWriteData(p, c.length)

WrapCanWrite ==
  scenario = "wrapped" /\ ppc = "writing" /\ Len(written) < MaxWrapWrites

\* a typed writer called on the wrapped Pickle
WrapTypedWrite ==
  /\ WrapCanWrite
  /\ \E c \in WriterCalls : Wrote(c.op, c, WriterCall(pickle_, c))

\* BeginWrite(length) called on the wrapped Pickle
WrapBeginWrite ==
  /\ WrapCanWrite
  /\ \E length \in {0, 4} :
       LET bw == BeginWrite(pickle_, length)
       IN  Wrote("BeginWrite",
                 [op |-> "BeginWrite", value |-> 0, data |-> <<>>,
                  length |-> length],
                 [p |-> bw.p, ret |-> ~bw.raised, raised |-> bw.raised,
                  dest |-> bw.dest, length |-> length])

\* FindNext(header_size, start, end) over offsets into the wrapped bytes,
\* the last call of a run
WrapFindNext ==
  /\ scenario = "wrapped" /\ ppc = "writing" /\ found.op = "none"
  /\ \E header_size \in {0, 4, 6, 68}, start \in {0, 4} :
     \E end \in {start + 2, Len(wrapped)} :
       LET res == FindNext(header_size, start, end)
       IN  /\ found' = [op |-> "FindNext", header_size |-> header_size,
                        start |-> start, end |-> end,
                        raised |-> res.raised, none |-> res.none,
                        ret |-> res.ret]
           /\ ppc' = IF res.raised THEN "raised" ELSE "found"
  /\ UNCHANGED <<scenario, pickle_, written, last_write, iter_, reads,
                 last_read, wrapped>>
  /\ UNCHANGED <<rvars, nvars>>

\* the reads of fixed width, ReadBytes(n) and SkipBytes(n): [op, n]
ScalarReads == {"ReadBool", "ReadInt", "ReadLong", "ReadUInt16",
                "ReadUInt32", "ReadInt64", "ReadUInt64"}

ReadCalls ==
  [op : ScalarReads, n : {0}]
    \cup [op : {"ReadBytes"}, n : {-1, 0, 3}]
    \cup [op : {"SkipBytes"}, n : {-1, 2, 9}]

ReadCall(it, c) ==
  IF c.op = "ReadBool" THEN ReadBool(it)
  ELSE IF c.op = "ReadInt" THEN ReadInt(it)
  ELSE IF c.op = "ReadLong" THEN ReadLong(it)
  ELSE IF c.op = "ReadUInt16" THEN ReadUInt16(it)
  ELSE IF c.op = "ReadUInt32" THEN ReadUInt32(it)
  ELSE IF c.op = "ReadInt64" THEN ReadInt64(it)
  ELSE IF c.op = "ReadUInt64" THEN ReadUInt64(it)
  ELSE IF c.op = "ReadBytes" THEN ReadBytes(it, c.n)
  ELSE SkipBytes(it, c.n)

\* a read through the iterator over the wrapped Pickle
WrapRead ==
  /\ scenario = "wrapped" /\ ppc = "reading" /\ reads < MaxScalarReads
  /\ wrapped \in WrapImages
  /\ \E c \in ReadCalls : DidRead(c.op, ReadCall(iter_, c))

\* the reads that take a length from the payload first
PrefixedReads == {"ReadString", "ReadString16", "ReadWString",
                  "ReadBinaryString", "ReadData", "ReadLength"}

PrefixedRead(it, op) ==
  IF op = "ReadString" THEN ReadString(it)
  ELSE IF op = "ReadString16" THEN ReadString16(it)
  ELSE IF op = "ReadWString" THEN ReadWString(it)
  ELSE IF op = "ReadBinaryString" THEN ReadBinaryString(it)
  ELSE IF op = "ReadData" THEN ReadData(it)
  ELSE ReadLength(it)

\* a length-prefixed read, or ReadLength, through the iterator over the
\* wrapped Pickle
WrapPrefixedRead ==
  /\ scenario = "wrapped" /\ ppc = "reading" /\ reads < MaxScalarReads
  /\ wrapped \in LengthImages
  /\ \E op \in PrefixedReads : DidRead(op, PrefixedRead(iter_, op))

WrapNext ==
  \/ WrapPrefixedRead
  \/ WrapTypedWrite
  \/ WrapBeginWrite
  \/ WrapFindNext
  \/ NewIterator
  \/ WrapRead

WrapSpec == WrapInit /\ [][WrapNext]_vars


-----------------------------------------------------------------------------
\* Claims about a wrapped Pickle and the cursor over it (WrapSpec).

\* C15: FindNext(header_size, start, end) on a byte range of at least 4
\* bytes returns None when header_size plus the payload size stored at start
\* runs past end, and the end offset start + header_size + payload_size when
\* the whole record fits.
C15_FindNextResult ==
  (/\ found.op = "FindNext"
   /\ found.header_size = AlignInt(found.header_size, SizeOf_UINT32)
   /\ found.header_size <= kPayloadUnit
   /\ found.end - found.start >= SizeOf_HEADER)
    => /\ ~found.raised
       /\ LET payload_end == found.start + found.header_size
                               + UnpackU32(wrapped, found.start)
          IN  IF payload_end > found.end THEN found.none
              ELSE ~found.none /\ found.ret = payload_end

\* The part of C15 the code keeps: a range shorter than a header is
\* reported as not found.
C15_ShortRangeNotFound ==
  (/\ found.op = "FindNext"
   /\ found.header_size = AlignInt(found.header_size, SizeOf_UINT32)
   /\ found.header_size <= kPayloadUnit
   /\ found.end - found.start < SizeOf_HEADER)
    => ~found.raised /\ found.none

\* the bytes a are shorter than 4 bytes, or their length less the stored
\* payload size is zero or not a multiple of 4
InvalidImage(a) ==
  \/ Len(a) < SizeOf_HEADER
  \/ Len(a) - UnpackU32(a, 0) = 0
  \/ (Len(a) - UnpackU32(a, 0)) % SizeOf_UINT32 # 0

\* C16: a Pickle wrapped over bytes shorter than 4 bytes, or whose length
\* less the stored payload size is zero or not a multiple of 4, is empty:
\* size() is 0, data() is empty, a cursor over it spans nothing and every
\* scalar read through it fails (without raising).
C16_InvalidWrapIsEmpty ==
  (scenario = "wrapped" /\ InvalidImage(wrapped))
    => /\ PickleSize(pickle_) = 0
       /\ PickleData(pickle_) = <<>>
       /\ (ppc = "reading" => iter_.read_end_ptr_ = 0)
       /\ (reads > 0 /\ last_read.op \in ScalarReads
             => ~last_read.status /\ ~last_read.raised)

\* eight bytes declaring a payload of 3 were wrapped and a ReadInt through
\* the cursor failed
C16_Witness ==
  /\ scenario = "wrapped"
  /\ wrapped = PackU32(3) \o Payload4
  /\ PickleSize(pickle_) = 0
  /\ reads > 0
  /\ last_read.op = "ReadInt"
  /\ ~last_read.status

\* C17: when the stored payload size is larger than the length of the
\* wrapped bytes, the wrapped Pickle is empty: size() is 0 and a cursor
\* over it has no bytes to read.
C17_NegativeHeaderSizeIsEmpty ==
  (/\ scenario = "wrapped"
   /\ Len(wrapped) >= SizeOf_HEADER
   /\ UnpackU32(wrapped, 0) > Len(wrapped))
    => /\ PickleSize(pickle_) = 0
       /\ (ppc = "reading" => iter_.read_end_ptr_ = 0)
       /\ (reads > 0 /\ last_read.op \in ScalarReads => ~last_read.status)

\* The part of C17 the code keeps: a deduced header size that is negative
\* and not a multiple of 4 makes the wrapped Pickle empty.
C17_NegativeUnalignedIsEmpty ==
  (/\ scenario = "wrapped"
   /\ Len(wrapped) >= SizeOf_HEADER
   /\ UnpackU32(wrapped, 0) > Len(wrapped)
   /\ (Len(wrapped) - UnpackU32(wrapped, 0)) % SizeOf_UINT32 # 0)
    => /\ PickleSize(pickle_) = 0
       /\ (ppc = "reading" => iter_.read_end_ptr_ = 0)

\* the Pickle as it was made over the wrapped bytes
AsWrapped ==
  IF pickle_.header_readonly THEN PickleWrapBytes(wrapped)
  ELSE PickleWrap(wrapped)

\* only typed writers were called on the wrapped Pickle, at least one
OnlyTypedWrites ==
  /\ scenario = "wrapped"
  /\ written # <<>>
  /\ \A i \in 1..Len(written) : written[i].op \in TypedWriters

\* C18: a typed writer called on a wrapped Pickle, valid or not, fails (it
\* raises, or reports False / None for a negative length) and changes
\* nothing: the wrapped bytes, size() and the header size are as before.
C18_BorrowedWritersFail ==
  OnlyTypedWrites
    => /\ last_write.ret = FALSE
       /\ pickle_ = AsWrapped
       /\ PickleSize(pickle_) = PickleSize(AsWrapped)
       /\ PickleData(pickle_) = PickleData(AsWrapped)

\* WriteInt was called on a valid Pickle wrapped over a mutable byte array
\* and raised
C18_Witness ==
  /\ OnlyTypedWrites
  /\ wrapped = PackU32(4) \o Payload4
  /\ ~pickle_.header_readonly
  /\ written[1].op = "WriteInt"
  /\ ppc = "raised"
  /\ pickle_.header_ = wrapped

\* C19: BeginWrite(length) called on a wrapped Pickle fails and leaves the
\* wrapped bytes, the stored payload size included, as they were, whether
\* the bytes are immutable or a mutable byte array.
C19_BeginWriteOnBorrowedFails ==
  (scenario = "wrapped" /\ written # <<>>
     /\ written[Len(written)].op = "BeginWrite")
    => /\ last_write.ret = FALSE
       /\ PickleData(pickle_) = PickleData(AsWrapped)

\* The part of C19 the code keeps: over immutable bytes, or over bytes that
\* are not a consistent pickle, BeginWrite raises and changes nothing.
C19_BeginWriteOnImmutableFails ==
  (scenario = "wrapped" /\ written # <<>>
     /\ written[Len(written)].op = "BeginWrite"
     /\ (pickle_.header_readonly \/ pickle_.is_none))
    => /\ ppc = "raised"
       /\ pickle_ = AsWrapped

\* C20: when a fixed-width scalar read, ReadBytes(n) or SkipBytes(n)
\* reports failure, the position of the cursor is what it was before the
\* call.
C20_FailedReadKeepsPosition ==
  (/\ scenario = "wrapped" /\ reads > 0 /\ ~last_read.status
   /\ last_read.op \notin PrefixedReads)
    => iter_.read_ptr_ = last_read.before

\* after one ReadInt over a payload of 5 bytes a second ReadInt failed at
\* position 4
C20_Witness ==
  /\ scenario = "wrapped"
  /\ reads = 2
  /\ last_read.op = "ReadInt"
  /\ ~last_read.status
  /\ last_read.before = 4
  /\ iter_.read_ptr_ = 4
  /\ iter_.read_end_ptr_ = 5

-----------------------------------------------------------------------------
(* The length-prefixed reads and the bound of the position.                *)

\* the last read was a length-prefixed read or ReadLength, it found the 4
\* bytes of a length and reported failure
PrefixedReadFailed ==
  /\ scenario = "wrapped" /\ reads > 0
  /\ last_read.op \in PrefixedReads
  /\ ~last_read.raised /\ ~last_read.status
  /\ last_read.before + SizeOf_INT <= iter_.read_end_ptr_

\* C21: when a length-prefixed read (ReadString, ReadString16, ReadWString,
\* ReadBinaryString, ReadData) or ReadLength fails because the length is
\* negative or exceeds the remaining bytes, the position is what it was
\* before the call: the 4 bytes of the length are not consumed.
C21_FailedPrefixedReadKeepsPosition ==
  PrefixedReadFailed => iter_.read_ptr_ = last_read.before

\* what the code does instead: the 4 bytes of the length stay consumed
C21_LengthStaysConsumed ==
  PrefixedReadFailed => iter_.read_ptr_ = last_read.before + SizeOf_INT

\* C22: after any sequence of reads over any buffer the position is at
\* most the end: a read whose 4-byte-aligned consumption exceeds the
\* remaining bytes fails.
C22_PositionWithinEnd ==
  (scenario = "wrapped" /\ ppc = "reading")
    => iter_.read_ptr_ <= iter_.read_end_ptr_

\* what the code keeps instead: the position is a multiple of 4 below the
\* end rounded up to a multiple of 4
C22_PositionWithinAlignedEnd ==
  (scenario = "wrapped" /\ ppc = "reading")
    => /\ iter_.read_ptr_ % 4 = 0
       /\ iter_.read_ptr_ <= AlignInt(iter_.read_end_ptr_, 4)

-----------------------------------------------------------------------------
(* The end of a cursor.                                                     *)

\* C28: a cursor created over any buffer has its end at the buffer's
\* payload_size(): it can consume exactly the written payload, and a read
\* after the written values fails.
C28_CursorEndIsPayloadSize ==
  ppc = "reading" => iter_.read_end_ptr_ = PicklePayloadSize(pickle_)

\* what the code does instead over an Owned buffer: the end is the end of
\* the bytes data() returns, the allocated capacity after the header
C28_CursorEndIsDataEnd ==
  ppc = "reading" =>
    iter_.read_end_ptr_ = Len(PickleData(pickle_)) - PicklePayload(pickle_)

-----------------------------------------------------------------------------
(* The capacity and the storage of an Owned buffer.                         *)

\* C23: for an Owned buffer capacity() >= header size + payload_size()
\* after construction and after any sequence of writes, the storage is at
\* least capacity() bytes long, and no write lands outside the storage.
C23_CapacityCoversPayload ==
  /\ pickle_.capacity_ >= pickle_.header_size_ + PicklePayloadSize(pickle_)
  /\ Len(pickle_.header_) >= pickle_.capacity_
  /\ (written # <<>> /\ last_write.ret) =>
       AlignInt(last_write.dest + last_write.length, SizeOf_UINT32)
         <= Len(pickle_.header_)

\* 61 bytes, then 130 bytes: the capacity grew from 64 to 128 and to 256
C23_Witness ==
  /\ scenario = "grow"
  /\ Len(written) = 2
  /\ Len(written[1].value) = 61 /\ Len(written[2].value) = 130
  /\ last_write.ret
  /\ pickle_.capacity_ = 256
  /\ PicklePayloadSize(pickle_) = 194

-----------------------------------------------------------------------------
(* The variable region: BeginWriteData(L), then TrimWriteData(n).           *)

\* TrimWriteData(n) was called right after a BeginWriteData(L) that
\* succeeded
TrimmedAfterBegin ==
  /\ scenario = "region" /\ found.op = "TrimWriteData"
  /\ written # <<>>
  /\ written[Len(written)].op = "BeginWriteData"
  /\ last_write.ret

RegionLength == written[Len(written)].value

\* the bytes from lo (an offset) up to hi of the storage are as before the
\* TrimWriteData
SameBytes(lo, hi) ==
  SubSeq(pickle_.header_, lo + 1, hi) = SubSeq(found.header_, lo + 1, hi)

TrimRefused ==
  /\ found.raised
  /\ pickle_.header_ = found.header_

\* C24: after BeginWriteData(L) and TrimWriteData(n) with 0 <= n <= L,
\* payload_size() has decreased by L - n, the length stored before the
\* region is n and the bytes of the fields written before the region are
\* unchanged; TrimWriteData(n) with n > L fails and changes nothing.
C24_TrimShrinksRegion ==
  TrimmedAfterBegin =>
    IF found.n >= 0 /\ found.n <= RegionLength
    THEN /\ ~found.raised
         /\ PicklePayloadSize(pickle_)
              = UnpackU32(found.header_, 0) - (RegionLength - found.n)
         /\ UnpackU32(pickle_.header_, pickle_.variable_buffer_offset_)
              = found.n
         /\ SameBytes(pickle_.header_size_, pickle_.variable_buffer_offset_)
    ELSE found.n > RegionLength => TrimRefused

\* what the code does instead: the new length is stored as the payload
\* size, and the length before the region and every other byte stay
C24_TrimOverwritesPayloadSize ==
  TrimmedAfterBegin =>
    IF found.n >= 0 /\ found.n <= RegionLength
    THEN /\ ~found.raised
         /\ PicklePayloadSize(pickle_) = found.n
         /\ SameBytes(SizeOf_UINT32, Len(found.header_))
         /\ Len(pickle_.header_) = Len(found.header_)
    ELSE TrimRefused

-----------------------------------------------------------------------------
(* Pickle(h): an empty buffer with a header size given.                     *)

HeaderSizeInRange ==
  /\ AlignInt(found.header_size, 4) >= 4
  /\ AlignInt(found.header_size, 4) <= 64

\* pickle_ is as Pickle(h) made it, with the header size hs
PickleMadeWith(hs) ==
  /\ ~found.raised
  /\ pickle_.header_size_ = hs
  /\ PicklePayload(pickle_) = hs
  /\ written = <<>> =>
       /\ PicklePayloadSize(pickle_) = 0
       /\ PickleSize(pickle_) = hs
       /\ pickle_.capacity_ = 64
  /\ (written # <<>> /\ last_write.ret) =>
       /\ last_write.dest >= hs
       /\ PickleSize(pickle_) = hs + PicklePayloadSize(pickle_)
  /\ ppc = "reading" => Len(iter_.bytes_) = Len(pickle_.header_) - hs

\* C25: Pickle(h) with 4 <= AlignInt(h, 4) <= 64 gives a buffer whose
\* header size, the payload offset used by writes, size() and cursors, is
\* AlignInt(h, 4), with payload_size() 0 and capacity() 64; a header size
\* below 4 or above 64 after rounding fails.
C25_HeaderSizeAsGiven ==
  (scenario = "header" /\ found.op = "Pickle") =>
    IF HeaderSizeInRange
    THEN PickleMadeWith(AlignInt(found.header_size, 4))
    ELSE found.raised

\* what the code does instead: the header size is 4 whatever h was
C25_HeaderSizeIsDefault ==
  (scenario = "header" /\ found.op = "Pickle") =>
    IF HeaderSizeInRange THEN PickleMadeWith(SizeOf_HEADER)
    ELSE found.raised /\ pickle_ = PickleDefault

-----------------------------------------------------------------------------
(* A command made from a Pickle.                                            *)

CommandMade == found.op \in {"SessionCommand", "CommandRead"}

TheCommand == [id_ |-> found.id, contents_ |-> contents_]

\* the command holds the first size() bytes of pickle_, and its
\* PayloadAsPickle() is valid with the header size, the payload size and
\* the payload bytes of pickle_
CommandHoldsBuffer ==
  LET w == PayloadAsPickle(TheCommand)
  IN  /\ SessionCommandSize(TheCommand) = PickleSize(pickle_)
      /\ contents_ = SubSeq(pickle_.header_, 1, PickleSize(pickle_))
      /\ ~w.is_none
      /\ w.capacity_ = kCapacityReadOnly
      /\ w.header_size_ = pickle_.header_size_
      /\ PicklePayloadSize(w) = PicklePayloadSize(pickle_)
      /\ SliceFrom(PickleData(w), PicklePayload(w))
           = SubSeq(pickle_.header_, PicklePayload(pickle_) + 1,
                    PickleSize(pickle_))

\* C26: C = SessionCommand(id, P) has C.size() = P.size() and the first
\* P.size() bytes of P as contents, and C.PayloadAsPickle() is a valid
\* Borrowed buffer with the header size, payload_size and payload bytes of
\* P, so that a cursor over it reads the same values as a cursor over P.
C26_CommandReadsAsBuffer ==
  CommandMade =>
    /\ CommandHoldsBuffer
    /\ found.op = "CommandRead" =>
         /\ last_read.status = found.status
         /\ last_read.status => last_read.value = found.value

\* what the code gives: the copy is exact, and what the cursor over the
\* command's Pickle reads, the cursor over P reads too; the cursor over P
\* goes on reading after the written payload
C26_CommandCopiesBuffer ==
  CommandMade =>
    /\ CommandHoldsBuffer
    /\ (found.op = "CommandRead" /\ found.status) =>
         /\ last_read.status
         /\ last_read.value = found.value
         /\ iter_.read_ptr_ = nav_iter.read_ptr_

-----------------------------------------------------------------------------
(* The file handle of the reader.                                           *)

\* C27: the reader's file handle is closed on every exit path: when
\* construction fails no handle stays open, and once Read has returned
\* (header failure, clean end, truncation or I/O error) the handle is
\* closed without any further action by the caller.
C27_HandleClosedOnExit ==
  /\ pc = "failed" => file_ # "open"
  /\ Terminated => file_ # "open"

\* what the code does: a failed construction leaves no handle, and the
\* handle Read used stays open after Read until __del__ closes it
C27_HandleOpenUntilDeleted ==
  /\ pc = "failed" => file_ = "none"
  /\ pc \in {"open", "streaming"} => file_ = "open"
  /\ Terminated => file_ \in {"open", "closed"}

\* no step of Read closes the handle
C27_ReadNeverCloses == [][file_' # file_ => Terminated]_vars

-----------------------------------------------------------------------------
(* A scalar written by its typed writer and read back.                      *)

\* one scalar was written, or its writer raised
ScalarWritten ==
  /\ scenario = "scalar" /\ written # <<>>
  /\ written[1].op \in ScalarWriters \cup {"WriteBool"}

ScalarValue == written[1].value

\* the value in the range of the type of its writer
InScalarRange ==
  \/ written[1].op \in {"WriteBool", "WriteInt", "WriteInt64"}
  \/ written[1].op = "WriteUInt16" /\ ScalarValue >= 0 /\ ScalarValue < 65536
  \/ written[1].op \in {"WriteUInt32", "WriteUInt64"} /\ ScalarValue >= 0

\* the value v as the matching read returns it: a 64-bit value is its two
\* 32-bit words
AsRead(v) ==
  IF written[1].op = "WriteInt64"
  THEN <<IF v >= 0 THEN v ELSE v + 2147483647 + 2147483647 + 2,
         IF v >= 0 THEN 0 ELSE -1>>
  ELSE IF written[1].op = "WriteUInt64" THEN <<v, 0>>
  ELSE v

ScalarReadBack(v) ==
  /\ last_write.ret
  /\ ppc # "raised"
  /\ (reads = 1 /\ last_read.op = MatchingReadName(written[1].op)) =>
       /\ last_read.status = TRUE
       /\ last_read.value = v

\* C31: every value in the range of a scalar type (int32 and int64 with
\* the negative values, uint16, uint32 and uint64 up to their maxima, both
\* booleans), written with the typed writer to an empty Owned buffer and
\* read back with the matching read, succeeds and returns the same value.
C31_ScalarRoundTrip ==
  (ScalarWritten /\ InScalarRange) => ScalarReadBack(AsRead(ScalarValue))

\* what the code does: a negative value makes the writer raise
\* (to_bytes is unsigned) and writes nothing; a uint16 from 32768 is read
\* back less 65536 (ReadUInt16 unpacks 'h'); the other values round-trip
C31_UnsignedWriteSignedRead ==
  ScalarWritten =>
    IF written[1].op # "WriteBool" /\ ScalarValue < 0
    THEN /\ ppc = "raised"
         /\ pickle_ = PickleDefault
    ELSE IF written[1].op = "WriteUInt16" /\ ScalarValue >= 65536
    THEN ppc = "raised" /\ pickle_ = PickleDefault
    ELSE IF written[1].op = "WriteUInt16" /\ ScalarValue >= 32768
    THEN ScalarReadBack(ScalarValue - 65536)
    ELSE ScalarReadBack(AsRead(ScalarValue))

-----------------------------------------------------------------------------
(* The window of the reader grown for a large frame.                       *)

\* the frame whose size prefix the next call of __ReadCommand takes
NextFrame == frames[Len(read_commands) + 1]

\* a step of Read in which __ReadCommand extended buffer_
WindowGrown == Len(buffer_') > Len(buffer_)

\* the bytes that were unread after the size prefix are, in order, at the
\* start of the window after the refill
UnreadPreserved ==
  available_count_ >= SizeOf_SIZE_TYPE =>
    \A i \in 1..(available_count_ - SizeOf_SIZE_TYPE) :
      buffer_'[i] = buffer_[buffer_position_ + SizeOf_SIZE_TYPE + i]

\* the available bytes of the window are the bytes of the file that end
\* at the file position
WindowHoldsFile ==
  \A i \in 1..available_count_ :
    buffer_[buffer_position_ + i] = file[file_offset - available_count_ + i]

\* C32: when the declared size of a frame exceeds the length of the
\* window, the window is grown so that its new length is a multiple of the
\* 1024-byte chunk size and at least the declared size, and the refill
\* that follows keeps the unread bytes of the window in order.
C32_GrownToChunkMultiple ==
  [][WindowGrown =>
       /\ Len(buffer_') % kFileReadBufferSize = 0
       /\ Len(buffer_') >= NextFrame.size
       /\ UnreadPreserved]_vars

\* what the code does: '/' is the true division, so the new length is the
\* declared size plus 1024; the unread bytes are kept
C32_GrownBySizePlusChunk ==
  [][WindowGrown =>
       /\ NextFrame.size > Len(buffer_)
       /\ Len(buffer_') = NextFrame.size + kFileReadBufferSize
       /\ UnreadPreserved
       /\ WindowHoldsFile']_vars

-----------------------------------------------------------------------------
(* The position and the count of the window.                               *)

\* the fields r of the reader describe a part of the window
WindowInRange(r) ==
  /\ r.buffer_position_ >= 0
  /\ r.available_count_ >= 0
  /\ r.buffer_position_ + r.available_count_ <= Len(r.buffer_)

\* __FillBuffer called on r has room for at least one byte
RefillHasRoom(r) == r.available_count_ < Len(r.buffer_)

\* the fields when the size prefix has been taken, and when the window has
\* been grown for it
SizeTaken(r) ==
  [r EXCEPT !.buffer_position_ = @ + SizeOf_UINT16,
            !.available_count_ = @ - SizeOf_UINT16]

WindowFor(r, command_size) ==
  IF command_size > Len(r.buffer_)
  THEN [r EXCEPT !.buffer_ = GrownBuffer(@, command_size)]
  ELSE r

\* the points of __ReadCommand from the size prefix to the second refill
BodyPointsInRange(r) ==
  LET command_size == UnpackU16(r.buffer_, r.buffer_position_)
      r1 == SizeTaken(r)
      r2 == WindowFor(r1, command_size)
  IN  /\ WindowInRange(r1)
      /\ (~IsEmptyCommand(command_size) /\ command_size > r1.available_count_)
           => /\ WindowInRange(r2)
              /\ RefillHasRoom(r2)
              /\ WindowInRange(FillBuffer(r2).rd)

\* the points of the call of __ReadCommand that starts with the fields r
ReadCommandPointsInRange(r) ==
  LET fill == FillBuffer(r)
  IN  IF r.available_count_ < SizeOf_SIZE_TYPE
      THEN /\ RefillHasRoom(r)
           /\ WindowInRange(fill.rd)
           /\ (fill.ret /\ fill.rd.available_count_ >= SizeOf_SIZE_TYPE)
                => BodyPointsInRange(fill.rd)
      ELSE BodyPointsInRange(r)

\* C33: throughout Read, for any contents of the file, buffer_position_
\* and available_count_ are not negative and their sum is at most
\* len(buffer_); so every refill has room for at least one byte and the
\* 'out of space' error of __FillBuffer is never raised.
C33_WindowInRange ==
  /\ WindowInRange(ReaderFields)
  /\ stop # "out_of_space"
  /\ pc = "streaming" => ReadCommandPointsInRange(ReaderFields)

\* Read has returned after refills of a window that was grown
C33_Witness ==
  /\ pc = "returned"
  /\ fill_calls >= 3
  /\ Len(buffer_) > kFileReadBufferSize
  /\ Len(read_commands) = 2

-----------------------------------------------------------------------------
(* A file that ends inside the header.                                     *)

ShortFile == file_ # "none" /\ Len(file) < SizeOf_FILEHEADER

\* C35: for a file shorter than the 8-byte header, the empty file
\* included, Read returns (False, []) without raising and without decoding
\* any frame.
C35_ShortFileFails ==
  ShortFile =>
    /\ pc \in {"open", "returned"}
    /\ read_commands = <<>>
    /\ fill_calls = 0
    /\ available_count_ = 0
    /\ pc = "returned" => (~success /\ stop = "short_header")

\* Read has returned on the empty file
C35_Witness ==
  /\ pc = "returned"
  /\ file_ = "open"
  /\ file = <<>>

\* Read has returned on a file of 7 bytes of a valid header
C35_WitnessPartialHeader ==
  /\ pc = "returned"
  /\ Len(file) = SizeOf_FILEHEADER - 1
  /\ file = SubSeq(GoodHeader, 1, Len(file))

-----------------------------------------------------------------------------
(* Typed writes read back in the order they were written.                  *)

\* some of the writes have been read back through the two cursors
OrderedReadDone == scenario = "typed" /\ ppc = "ordered" /\ reads >= 1

\* a read that succeeded with the value v
ReadGave(rd, v) == ~rd.raised /\ rd.status /\ rd.value = v

\* C34: for any sequence of typed writes of bool, uint32, UTF-8 string
\* and length-prefixed blob values, of any lengths, to an Owned buffer,
\* the reads of the same types in the same order through a cursor over the
\* buffer, and through a cursor over a Borrowed wrap of its encoded bytes,
\* return the written values in order.
C34_OrderedReadsGiveWrites ==
  OrderedReadDone =>
    /\ ReadGave(last_read, written[reads].value)
    /\ ReadGave(found, written[reads].value)

\* a string of 3 bytes and a blob of 5, both read back
C34_Witness ==
  /\ OrderedReadDone
  /\ reads = 2
  /\ written[1] = [op |-> "WriteString", value |-> <<8364>>]
  /\ written[2].op = "WriteData"
  /\ Len(written[2].value) = 5

====
